---- MODULE Spec2Model ----
(***************************************************************************)
(* Model of the trading bot's components:                                  *)
(*   - PumpFunListener, the NATS-over-WebSocket subscription session       *)
(*     (src/unnamed/part_000), together with the events the `ws` socket    *)
(*     library delivers to its handlers;                                   *)
(*   - the Solana RPC failover executor executeRpcCall, its endpoint pool  *)
(*     and its query wrappers (src/unnamed/part_001);                      *)
(*   - handleNewToken, the RiskManager and the positions kept in Redis     *)
(*     (jupiter_trader.ts, src/unnamed/part_002, redis_service.ts).        *)
(* The specifications: SpecSession, SpecSessionTraced, SpecSessionLive,    *)
(* SpecSessionHandshake and SpecSessionConsumers (the session); SpecParse  *)
(* and SpecDispatch (handleNatsMsg as a function of the raw message);      *)
(* SpecRpc, SpecRpcLive and SpecRpcShared (the executor); SpecTrade (the   *)
(* buys) and SpecMonitor (the RiskManager's periodic checks and sells).    *)
(***************************************************************************)
EXTENDS Integers, Sequences, FiniteSets, TLC

(***************************************************************************)
(* Bounds of the model.                                                    *)
(***************************************************************************)
\* Socket objects that may exist at once (slots are reused once closed).
MaxSockets == 2
\* Saturation of the count of consecutive failed connect attempts.
MaxFailures == 3
\* Largest endpoint pool (appConfig.rpcEndpoints.length ranges over 1..MaxEndpoints).
MaxEndpoints == 2
\* Largest appConfig.rpcRetryAttempts (it ranges over 0..MaxAttempts).
MaxAttempts == 2
\* executeRpcCall invocations in flight at once where callers share the pool.
MaxShared == 2
\* Longest payload, in bytes, of the data frames handleNatsMsg is given.
MaxPayload == 3
\* Saturation of the count of SUB batches written to one socket.
MaxSubs == 2
\* Most callbacks registered with addTokenCallback.
MaxConsumers == 2
\* Longest history of consumer calls kept.
MaxInvoked == 4
\* Largest appConfig.maxOpenTrades (it ranges over 1..MaxOpenTrades).
MaxOpenTrades == 2
\* handleNewToken invocations in flight at once.
MaxHandlers == 2
\* Largest outAmount of the post-buy quote (it ranges over 0..MaxAmount).
MaxAmount == 2
\* Most Redis commands sent and not yet answered.
MaxPending == 2
\* checkPosition invocations in flight at once.
MaxChecks == 2

VARIABLES
  \* ---- PumpFunListener fields ----
  urlConfigured,              \* appConfig.pumpFunWebsocketUrl is non-empty
  natsState,                  \* this.natsState
  ws,                         \* this.ws: a socket slot, or 0 for null
  clientKeepAliveIntervalId,  \* TRUE when the keep-alive interval is set
  reconnectTimers,            \* pending setTimeout(() => this.connect()) timers
  \* ---- the sockets created by connect() ----
  sock,                       \* slot -> [rs, rx, listeners, scheduled, subs]
  \* ---- what the last handler did ----
  lastStep,                   \* the handler that ran last: [op, sock, data]
  out,                        \* frames the last handler wrote: <<[to, cmd]>>
  parsed,                     \* locals of the last handleNatsMsg call
  \* ---- history ----
  stopRequested,              \* stop() was called and start() not since
  failures,                   \* consecutive failed connect attempts (saturating)
  stopFound,                  \* what the stop() in force found: "none" when not stopped
  \* ---- consumers ----
  newTokenCallbacks,          \* this.newTokenCallbacks: what each callback does
  invoked,                    \* history: the consumer calls made, <<[frame, consumer]>>
  traced,                     \* TRUE where the history of stops and of sockets' SUBs is kept
  \* ---- Solana RPC service (module state and configuration) ----
  rpcEndpoints,               \* appConfig.rpcEndpoints.length
  rpcRetryAttempts,           \* appConfig.rpcRetryAttempts
  currentRpcIndex,            \* let currentRpcIndex
  currentConnection,          \* endpoint of let currentConnection, or NoConnection
  call,                       \* caller -> the frame of its executeRpcCall invocation
  \* ---- trading: handleNewToken, RiskManager, Redis ----
  maxOpenTrades,              \* appConfig.maxOpenTrades
  monitoredPositions,         \* RiskManager.monitoredPositions: mint -> position
  redis,                      \* the Redis server: mint -> value of solabot:active_position:<mint>
  pending,                    \* commands sent to Redis and not yet answered, oldest first
  handler,                    \* invocation -> where its handleNewToken stands
  check,                      \* invocation -> where its checkPosition stands
  sold                        \* mints a sell started by checkPosition has returned a txid for

sessionVars == <<urlConfigured, natsState, ws, clientKeepAliveIntervalId,
                 reconnectTimers, sock, lastStep, out, parsed,
                 stopRequested, failures, stopFound, newTokenCallbacks, invoked,
                 traced>>

rpcVars == <<rpcEndpoints, rpcRetryAttempts, currentRpcIndex, currentConnection, call>>

tradeVars == <<maxOpenTrades, monitoredPositions, redis, pending, handler, check, sold>>

(***************************************************************************)
(* Text.  A message is a sequence of atoms: a whitespace character, or a   *)
(* run of non-whitespace bytes.  Inside a payload every atom is one byte.  *)
(***************************************************************************)
SP == " "
TAB == "\t"
CR == "\r"
LF == "\n"
Whitespace == {SP, TAB, CR, LF}

RECURSIVE TrimStart(_)
TrimStart(m) ==
  IF m # <<>> /\ Head(m) \in Whitespace THEN TrimStart(Tail(m)) ELSE m

RECURSIVE TrimEnd(_)
TrimEnd(m) ==
  IF m # <<>> /\ m[Len(m)] \in Whitespace
    THEN TrimEnd(SubSeq(m, 1, Len(m) - 1))
    ELSE m

\* String.prototype.trim
Trim(m) == TrimEnd(TrimStart(m))

\* String.prototype.startsWith, for a keyword that is one atom
StartsWith(m, word) == m # <<>> /\ Head(m) = word

\* String.prototype.indexOf('\r\n'), 1-based; 0 when absent (JS: -1)
IndexOfCRLF(m) ==
  LET hits == {i \in 1..(Len(m) - 1) : m[i] = CR /\ m[i + 1] = LF}
  IN  IF hits = {} THEN 0 ELSE CHOOSE i \in hits : \A j \in hits : i <= j

\* String.prototype.split(/\s+/): the maximal runs between whitespace runs.
\* A leading or trailing whitespace run yields an empty first or last part.
RECURSIVE SplitWs(_, _, _)
SplitWs(m, cur, inWs) ==
  IF m = <<>> THEN <<cur>>
  ELSE IF Head(m) \in Whitespace
    THEN IF inWs THEN SplitWs(Tail(m), cur, TRUE)
                 ELSE <<cur>> \o SplitWs(Tail(m), <<>>, TRUE)
    ELSE SplitWs(Tail(m), Append(cur, Head(m)), FALSE)

Split(m) == SplitWs(m, <<>>, FALSE)

(***************************************************************************)
(* NATS subscription ids and commands.                                     *)
(***************************************************************************)
SID_COIN_IMAGE_UPDATED == "1"
SID_ADVANCED_COIN_GRADUATED == "2"
SID_ADVANCED_NEW_COIN_CREATED == "3"

NatsState == {"DISCONNECTED", "CONNECTING", "CONNECTED_WAITING_FOR_INFO_OR_PING",
              "CONNECTED_AWAITING_PONG", "SUBSCRIBING", "OPERATIONAL"}

Sockets == 1..MaxSockets

\* A socket: readyState, whether 'message' events still arrive, whether the
\* 'close'/'error' handlers are attached, and history: reconnects its close
\* scheduled, and the batches of SUB commands written to it (counted up to
\* MaxSubs, where traced).
NoSocket == [rs |-> "NONE", rx |-> FALSE, listeners |-> FALSE, scheduled |-> 0,
             subs |-> 0, hello |-> FALSE]

\* The locals of handleNatsMsg: status is "malformed", "noSeparator" or "ok"
\* (lines 172-186); outcome, passes, tokenData, tokenAddress and calls are
\* those of lines 190-213.
NoParse == [status |-> "none", subject |-> <<>>, sid |-> <<>>, payloadStr |-> <<>>,
            outcome |-> "none", passes |-> 0, tokenData |-> [t |-> "undefined"],
            tokenAddress |-> [t |-> "undefined"], calls |-> <<>>]

\* The slots connect() may take for a new WebSocket object.
FreeSlots == {s \in Sockets : sock[s].rs \in {"NONE", "CLOSED"}}
LiveSockets == Sockets \ FreeSlots

\* sendNatsCommand: written only when this.ws is set and OPEN.
SendNatsCommand(sk, w, cmd) ==
  IF w # 0 /\ sk[w].rs = "OPEN" THEN <<[to |-> w, cmd |-> cmd]>> ELSE <<>>

\* subscribeToTopics: the three SUB commands, in order.
SubscribeCommands(sk, w) ==
  SendNatsCommand(sk, w, <<"SUB", "coinImageUpdated.>", SID_COIN_IMAGE_UPDATED>>) \o
  SendNatsCommand(sk, w, <<"SUB", "advancedCoinGraduated", SID_ADVANCED_COIN_GRADUATED>>) \o
  SendNatsCommand(sk, w, <<"SUB", "advancedNewCoinCreated", SID_ADVANCED_NEW_COIN_CREATED>>)

(***************************************************************************)
(* handleNatsMsg up to the payload: header fields and payload string.      *)
(***************************************************************************)
PayloadOf(messageStr) ==
  SubSeq(messageStr, IndexOfCRLF(messageStr) + 2, Len(messageStr))

HandleNatsMsg(messageStr) ==
  LET parts == Split(messageStr) IN
  IF Len(parts) < 4 THEN [NoParse EXCEPT !.status = "malformed"]
  ELSE IF IndexOfCRLF(messageStr) = 0
    THEN [NoParse EXCEPT !.status = "noSeparator", !.subject = parts[2], !.sid = parts[3]]
    ELSE [NoParse EXCEPT !.status = "ok", !.subject = parts[2], !.sid = parts[3],
                         !.payloadStr = PayloadOf(messageStr)]

(***************************************************************************)
(* JSON text.  A payload is a sequence of tokens: the structural tokens    *)
(* { } : , the quote of a string literal, and the text between quotes.     *)
(* Inside a string literal a quote is escaped; Q1 is the quote escaped     *)
(* once (backslash, quote), Q2 the quote escaped twice, and so on.         *)
(***************************************************************************)
Q0 == "\""
Q1 == "\\\""
Q2 == "\\\\\\\""
Q3 == "\\\\\\\\\\\\\\\""

\* One character of a string literal, as JSON.stringify writes it
JsonEscape(tok) ==
  CASE tok = Q0 -> Q1 [] tok = Q1 -> Q2 [] tok = Q2 -> Q3 [] OTHER -> tok

\* One escape sequence of a string literal, as JSON.parse reads it
JsonUnescape(tok) ==
  CASE tok = Q1 -> Q0 [] tok = Q2 -> Q1 [] tok = Q3 -> Q2 [] OTHER -> tok

\* JSON.stringify of a string whose characters are the tokens txt
JsonStringify(txt) == <<Q0>> \o [i \in 1..Len(txt) |-> JsonEscape(txt[i])] \o <<Q0>>

\* JavaScript values: the results of JSON.parse, and undefined
JsUndefined == [t |-> "undefined"]
JsNull == [t |-> "null"]
JsNumber(n) == [t |-> "number", n |-> n]
JsString(txt) == [t |-> "string", s |-> txt]
JsObject(fields) == [t |-> "object", f |-> fields]
\* JSON.parse throws SyntaxError
JsonSyntaxError == [t |-> "error"]

NumberTokens == {"0", "7"}
NumberValue(tok) == IF tok = "0" THEN 0 ELSE 7

\* The index of the first token tok of txt at or after position i; 0 if none
RECURSIVE IndexFrom(_, _, _)
IndexFrom(txt, tok, i) ==
  IF i > Len(txt) THEN 0
  ELSE IF txt[i] = tok THEN i ELSE IndexFrom(txt, tok, i + 1)

\* The text of a scalar value at the head of txt: [ok, v, rest]
ParseScalar(txt) ==
  IF txt = <<>> THEN [ok |-> FALSE, v |-> JsonSyntaxError, rest |-> <<>>]
  ELSE IF Head(txt) = "null" THEN [ok |-> TRUE, v |-> JsNull, rest |-> Tail(txt)]
  ELSE IF Head(txt) \in NumberTokens
    THEN [ok |-> TRUE, v |-> JsNumber(NumberValue(Head(txt))), rest |-> Tail(txt)]
  ELSE IF Head(txt) = Q0 /\ IndexFrom(txt, Q0, 2) # 0
    THEN LET j == IndexFrom(txt, Q0, 2) IN
         [ok |-> TRUE,
          v |-> JsString([i \in 1..(j - 2) |-> JsonUnescape(txt[i + 1])]),
          rest |-> SubSeq(txt, j + 1, Len(txt))]
  ELSE [ok |-> FALSE, v |-> JsonSyntaxError, rest |-> <<>>]

\* The members of an object, "key": scalar separated by commas: [ok, f].
\* A key written twice keeps its last value.
RECURSIVE ParseMembers(_)
ParseMembers(txt) ==
  IF Len(txt) < 5 \/ txt[1] # Q0 \/ txt[2] = Q0 \/ txt[3] # Q0 \/ txt[4] # ":"
    THEN [ok |-> FALSE, f |-> <<>>]
  ELSE LET val == ParseScalar(SubSeq(txt, 5, Len(txt))) IN
       IF ~val.ok THEN [ok |-> FALSE, f |-> <<>>]
       ELSE IF val.rest = <<>> THEN [ok |-> TRUE, f |-> (txt[2] :> val.v)]
       ELSE IF Head(val.rest) # "," THEN [ok |-> FALSE, f |-> <<>>]
       ELSE LET more == ParseMembers(Tail(val.rest)) IN
            IF more.ok THEN [ok |-> TRUE, f |-> more.f @@ (txt[2] :> val.v)]
                       ELSE [ok |-> FALSE, f |-> <<>>]

\* txt without the whitespace JSON allows between tokens (outside strings)
RECURSIVE SkipJsonWs(_, _)
SkipJsonWs(txt, inString) ==
  IF txt = <<>> THEN <<>>
  ELSE IF Head(txt) = Q0 THEN <<Q0>> \o SkipJsonWs(Tail(txt), ~inString)
  ELSE IF Head(txt) \in Whitespace /\ ~inString THEN SkipJsonWs(Tail(txt), inString)
  ELSE <<Head(txt)>> \o SkipJsonWs(Tail(txt), inString)

\* The value a whole text of tokens txt (no whitespace) stands for
ObjectValue(m) == IF m.ok THEN JsObject(m.f) ELSE JsonSyntaxError

ScalarValue(val) == IF val.ok /\ val.rest = <<>> THEN val.v ELSE JsonSyntaxError

ParseValue(txt) ==
  IF txt = <<>> THEN JsonSyntaxError
  ELSE IF Head(txt) = "{" THEN
    IF Len(txt) < 2 \/ txt[Len(txt)] # "}" THEN JsonSyntaxError
    ELSE IF Len(txt) = 2 THEN JsObject(<<>>)
    ELSE ObjectValue(ParseMembers(SubSeq(txt, 2, Len(txt) - 1)))
  ELSE ScalarValue(ParseScalar(txt))

\* JSON.parse(text): the value, or JsonSyntaxError.  Objects hold scalar
\* members (strings, numbers, null), which is what the frames carry.
JsonParse(text) == ParseValue(SkipJsonWs(text, FALSE))

(***************************************************************************)
(* handleNatsMsg from the payload on (lines 190-213): decoding, the token  *)
(* address, and the calls of the registered consumers.                     *)
(***************************************************************************)
\* tokenData.key: the member, or undefined (also for a string or a number)
JsGet(v, key) ==
  IF v.t = "object" /\ key \in DOMAIN v.f THEN v.f[key] ELSE JsUndefined

\* ToBoolean
Truthy(v) ==
  CASE v.t = "string" -> v.s # <<>>
    [] v.t = "number" -> v.n # 0
    [] v.t = "object" -> TRUE
    [] OTHER -> FALSE

\* a || b
JsOr(a, b) == IF Truthy(a) THEN a ELSE b

\* Decode as it would be if it decoded again for as long as the result is a
\* string.
RECURSIVE Decode_UntilNotString(_)
Decode_UntilNotString(payloadStr) ==
  LET first == JsonParse(payloadStr) IN
  IF first.t = "error"
    THEN [passes |-> 1, threw |-> TRUE, tokenData |-> JsUndefined]
  ELSE IF first.t = "string"
    THEN LET more == Decode_UntilNotString(first.s) IN
         [more EXCEPT !.passes = @ + 1]
  ELSE [passes |-> 1, threw |-> FALSE, tokenData |-> first]

\* Lines 195-198 for the result of the second JSON.parse
SecondPass(second) ==
  [passes |-> 2, threw |-> second.t = "error",
   tokenData |-> IF second.t = "error" THEN JsUndefined ELSE second]

\* FirstPass as it would be without the second JSON.parse of lines 195-198.
FirstPass_Once(first) ==
  IF first.t = "error"
    THEN [passes |-> 1, threw |-> TRUE, tokenData |-> JsUndefined]
    ELSE [passes |-> 1, threw |-> FALSE, tokenData |-> first]

\* Lines 192-198 for the result of the first JSON.parse
FirstPass(first) ==
  IF first.t = "error"
    THEN [passes |-> 1, threw |-> TRUE, tokenData |-> JsUndefined]
  ELSE IF first.t = "string" THEN SecondPass(JsonParse(first.s))
  ELSE [passes |-> 1, threw |-> FALSE, tokenData |-> first]

\* Lines 192-199: JSON.parse, and once more when the result is a string.
\* passes counts the calls of JSON.parse; threw: one of them threw.
Decode(payloadStr) == FirstPass(JsonParse(payloadStr))

\* TokenAddress as it would be if the first alias present in the object
\* were taken, whatever its value.
TokenAddress_FirstPresent(tokenData) ==
  IF tokenData.t # "object" THEN JsUndefined
  ELSE IF "coinMint" \in DOMAIN tokenData.f THEN tokenData.f["coinMint"]
  ELSE IF "mint" \in DOMAIN tokenData.f THEN tokenData.f["mint"]
  ELSE IF "token_address" \in DOMAIN tokenData.f THEN tokenData.f["token_address"]
  ELSE JsGet(tokenData, "address")

\* Line 202: coinMint || mint || token_address || address
TokenAddress(tokenData) ==
  JsOr(JsOr(JsOr(JsGet(tokenData, "coinMint"), JsGet(tokenData, "mint")),
            JsGet(tokenData, "token_address")),
       JsGet(tokenData, "address"))

\* HasAddress as it would be without the check of line 204.
HasAddress_Unchecked(tokenAddress) == TRUE

\* Line 204: if (tokenAddress)
HasAddress(tokenAddress) == Truthy(tokenAddress)

\* Consumers: what a registered callback does when it is called.
ConsumerKinds == {"returns", "throws"}

\* Line 206, newTokenCallbacks.forEach(cb => cb(...)): the indexes of the
\* callbacks called, in order.  A callback that throws ends the forEach.
RECURSIVE ForEach(_, _)
ForEach(cbs, i) ==
  IF i > Len(cbs) THEN <<>>
  ELSE IF cbs[i] = "throws" THEN <<i>>
  ELSE <<i>> \o ForEach(cbs, i + 1)

\* Lines 204-209 for the decoded tokenData and its tokenAddress
Deliver(passes, tokenData, tokenAddress, cbs) ==
  IF ~HasAddress(tokenAddress)
    THEN [outcome |-> "noAddress", passes |-> passes, tokenData |-> tokenData,
          tokenAddress |-> tokenAddress, calls |-> <<>>]
    ELSE [outcome |-> IF \E i \in 1..Len(cbs) : cbs[i] = "throws"
                        THEN "consumerThrew" ELSE "dispatched",
          passes |-> passes, tokenData |-> tokenData,
          tokenAddress |-> tokenAddress, calls |-> ForEach(cbs, 1)]

\* Lines 199-212 for the result d of the decoding.  Reading a property of
\* null throws TypeError inside the try block.
Decoded(d, cbs) ==
  IF d.threw
    THEN [outcome |-> "decodeError", passes |-> d.passes, tokenData |-> JsUndefined,
          tokenAddress |-> JsUndefined, calls |-> <<>>]
  ELSE IF d.tokenData.t = "null"
    THEN [outcome |-> "typeError", passes |-> d.passes, tokenData |-> JsNull,
          tokenAddress |-> JsUndefined, calls |-> <<>>]
  ELSE Deliver(d.passes, d.tokenData, TokenAddress(d.tokenData), cbs)

\* Dispatch as it would be if line 190 compared the subscription id only.
Dispatch_SidOnly(h, cbs) ==
  IF ~(h.sid = <<SID_ADVANCED_COIN_GRADUATED>>)
    THEN [outcome |-> "ignored", passes |-> 0, tokenData |-> JsUndefined,
          tokenAddress |-> JsUndefined, calls |-> <<>>]
    ELSE Decoded(Decode(h.payloadStr), cbs)

\* Lines 190-213 for the header fields and payload h, with cbs registered.
Dispatch(h, cbs) ==
  IF ~(h.sid = <<SID_ADVANCED_COIN_GRADUATED>> /\ h.subject = <<"advancedCoinGraduated">>)
    THEN [outcome |-> "ignored", passes |-> 0, tokenData |-> JsUndefined,
          tokenAddress |-> JsUndefined, calls |-> <<>>]
    ELSE Decoded(Decode(h.payloadStr), cbs)

\* The locals h of handleNatsMsg with those of lines 190-213 filled in
WithDispatch(h, d) ==
  [h EXCEPT !.outcome = d.outcome, !.passes = d.passes, !.tokenData = d.tokenData,
            !.tokenAddress = d.tokenAddress, !.calls = d.calls]

\* handleNatsMsg as a whole: the header fields h, and lines 190-213 when
\* the header was complete.
Handled(h, cbs) ==
  IF h.status # "ok" THEN h ELSE WithDispatch(h, Dispatch(h, cbs))

\* The history of consumer calls once the callbacks calls were called for
\* one more frame; frames that call no consumer are not numbered.
Logged(log, calls) ==
  LET frame == IF log = <<>> THEN 1 ELSE log[Len(log)].frame + 1 IN
  log \o [i \in 1..Len(calls) |-> [frame |-> frame, consumer |-> calls[i]]]

(***************************************************************************)
(* The session's handlers.  Each action is one callback run to completion  *)
(* (Node runs callbacks one at a time).                                    *)
(***************************************************************************)
CONNECT_COMMAND == <<"CONNECT", "{no_responders,protocol:1,user,pass,lang,version,headers}">>

\* Raw messages the server sends in the session specifications.
INFO_FRAME == <<"INFO", SP, "{server_id}", CR, LF>>
PING_FRAME == <<"PING", CR, LF>>
PONG_FRAME == <<"PONG", CR, LF>>
OK_FRAME == <<"+OK", CR, LF>>
ERR_FRAME == <<"-ERR", SP, "'Authorization Violation'", CR, LF>>
MSG_FRAME == <<"MSG", SP, "advancedCoinGraduated", SP, "2", SP, "2", CR, LF,
               "{", "}", CR, LF>>
OTHER_FRAME == <<"HELLO", CR, LF>>

SessionFrames == {INFO_FRAME, PING_FRAME, PONG_FRAME, OK_FRAME, ERR_FRAME,
                  MSG_FRAME, OTHER_FRAME}

Min(a, b) == IF a < b THEN a ELSE b

\* What lastStep records: the handler, its socket (0: none) and, for a
\* 'message' event, the data received.
Step(op, s) == [op |-> op, sock |-> s, data |-> <<>>]

\* The socket table once the frames o have been written: a batch of SUB
\* commands is counted on the socket it went to, and a CONNECT command is
\* noted there.
Written(sk, o) ==
  [s \in Sockets |->
     IF traced /\ \E i \in 1..Len(o) : o[i].to = s /\ o[i].cmd[1] = "SUB"
       THEN [sk[s] EXCEPT !.subs = Min(@ + 1, MaxSubs)]
     ELSE IF traced /\ \E i \in 1..Len(o) : o[i].to = s /\ o[i].cmd[1] = "CONNECT"
       THEN [sk[s] EXCEPT !.hello = TRUE]
       ELSE sk[s]]

\* connect(), lines 53-67 (the handlers of lines 69-137 are the Socket* actions)
Connect(sk) ==
  LET f == CHOOSE s \in Sockets :
             /\ sk[s].rs \in {"NONE", "CLOSED"}
             /\ \A t \in Sockets : sk[t].rs \in {"NONE", "CLOSED"} => s <= t
  IN  /\ natsState' = "CONNECTING"
      /\ ws' = f
      /\ sock' = [sk EXCEPT ![f] = [rs |-> "CONNECTING", rx |-> FALSE,
                                    listeners |-> TRUE, scheduled |-> 0,
                                    subs |-> 0, hello |-> FALSE]]

\* addTokenCallback(callback)
AddTokenCallback(kind) ==
  /\ Len(newTokenCallbacks) < MaxConsumers
  /\ newTokenCallbacks' = Append(newTokenCallbacks, kind)
  /\ lastStep' = Step("addTokenCallback", 0)
  /\ out' = <<>>
  /\ UNCHANGED <<urlConfigured, traced, natsState, ws, clientKeepAliveIntervalId,
                 reconnectTimers, sock, parsed, stopRequested, failures,
                 stopFound, invoked>>
  /\ UNCHANGED <<rpcVars, tradeVars>>

\* start()
Start ==
  /\ Cardinality(LiveSockets) + reconnectTimers < MaxSockets
  /\ lastStep' = Step("start", 0)
  /\ out' = <<>>
  /\ stopRequested' = FALSE
  /\ stopFound' = "none"
  /\ IF urlConfigured /\ natsState = "DISCONNECTED"
       THEN Connect(sock)
       ELSE UNCHANGED <<natsState, ws, sock>>
  /\ UNCHANGED <<urlConfigured, traced, clientKeepAliveIntervalId, reconnectTimers,
                 parsed, failures, newTokenCallbacks, invoked>>
  /\ UNCHANGED <<rpcVars, tradeVars>>

\* stop()
Stop ==
  /\ lastStep' = Step("stop", 0)
  /\ out' = <<>>
  /\ stopRequested' = TRUE
  /\ stopFound' = IF ~traced THEN "none"
                  ELSE IF reconnectTimers > 0 THEN "reconnectPending"
                  ELSE IF ws # 0 /\ sock[ws].rs \in {"CONNECTING", "OPEN"} THEN "connected"
                  ELSE IF stopRequested THEN stopFound
                  ELSE "disconnected"
  /\ natsState' = "DISCONNECTED"
  /\ clientKeepAliveIntervalId' = FALSE
  /\ IF ws # 0
       THEN sock' = [sock EXCEPT ![ws] =
                       [@ EXCEPT !.listeners = FALSE,
                                 !.rs = IF @ \in {"OPEN", "CONNECTING"}
                                          THEN "CLOSING" ELSE @]]
       ELSE sock' = sock
  /\ ws' = 0
  /\ UNCHANGED <<urlConfigured, traced, reconnectTimers, parsed, failures,
                 newTokenCallbacks, invoked>>
  /\ UNCHANGED <<rpcVars, tradeVars>>

\* ws.on('open')
SocketOpen(s) ==
  /\ sock[s].rs = "CONNECTING"
  /\ lastStep' = Step("open", s)
  /\ out' = SendNatsCommand([sock EXCEPT ![s].rs = "OPEN"], ws, CONNECT_COMMAND)
  /\ sock' = Written([sock EXCEPT ![s] = [@ EXCEPT !.rs = "OPEN", !.rx = TRUE]], out')
  /\ natsState' = "CONNECTED_WAITING_FOR_INFO_OR_PING"
  /\ clientKeepAliveIntervalId' = TRUE
  /\ failures' = 0
  /\ UNCHANGED <<urlConfigured, traced, ws, reconnectTimers, parsed, stopRequested, stopFound, newTokenCallbacks, invoked>>
  /\ UNCHANGED <<rpcVars, tradeVars>>

\* OnInfo as it would be without the state check of line 95.
OnInfo_InAnyState(st, sk, w) ==
  [natsState |-> "SUBSCRIBING", out |-> SubscribeCommands(sk, w)]

\* ws.on('message'), the INFO branch (lines 92-97)
OnInfo(st, sk, w) ==
  IF st = "CONNECTED_WAITING_FOR_INFO_OR_PING"
    THEN [natsState |-> "SUBSCRIBING", out |-> SubscribeCommands(sk, w)]
    ELSE [natsState |-> st, out |-> <<>>]

\* OnPing as it would be if an early PING were only answered: PONG, and the
\* handshake still waits for INFO.
OnPing_PongOnly(st, sk, w) ==
  [natsState |-> st, out |-> SendNatsCommand(sk, w, <<"PONG">>)]

\* ws.on('message'), the PING branch (lines 98-105): PONG first, then, when
\* still waiting for INFO, CONNECTED_AWAITING_PONG and at once
\* subscribeToTopics, which leaves the state SUBSCRIBING.
OnPing(st, sk, w) ==
  IF st = "CONNECTED_WAITING_FOR_INFO_OR_PING"
    THEN [natsState |-> "SUBSCRIBING",
          out |-> SendNatsCommand(sk, w, <<"PONG">>) \o SubscribeCommands(sk, w)]
    ELSE [natsState |-> st, out |-> SendNatsCommand(sk, w, <<"PONG">>)]

\* OnOk as it would be without the state check of line 110.
OnOk_InAnyState(st) == "OPERATIONAL"

\* ws.on('message'), the +OK branch (lines 108-113)
OnOk(st) == IF st = "SUBSCRIBING" THEN "OPERATIONAL" ELSE st

\* OnErr as it would be if a rejected handshake gave the session up.
OnErr_Disconnects(st) == "DISCONNECTED"

\* ws.on('message'), the -ERR branch (lines 117-118): logged only
OnErr(st) == st

\* ws.on('message')
SocketMessage(s, data) ==
  LET messageStr == Trim(data) IN
  /\ sock[s].rx
  /\ lastStep' = [op |-> "message", sock |-> s, data |-> data]
  /\ IF StartsWith(messageStr, "INFO") THEN
       /\ natsState' = OnInfo(natsState, sock, ws).natsState
       /\ out' = OnInfo(natsState, sock, ws).out
       /\ parsed' = parsed
     ELSE IF messageStr = <<"PING">> THEN
       /\ natsState' = OnPing(natsState, sock, ws).natsState
       /\ out' = OnPing(natsState, sock, ws).out
       /\ parsed' = parsed
     ELSE IF StartsWith(messageStr, "MSG") THEN
       /\ parsed' = Handled(HandleNatsMsg(messageStr), newTokenCallbacks)
       /\ out' = <<>>
       /\ natsState' = natsState
     ELSE IF messageStr = <<"+OK">> THEN
       /\ natsState' = OnOk(natsState)
       /\ out' = <<>>
       /\ parsed' = parsed
     ELSE IF StartsWith(messageStr, "-ERR") THEN
       /\ natsState' = OnErr(natsState)
       /\ out' = <<>>
       /\ parsed' = parsed
     ELSE \* PONG and anything else: logged only
       /\ out' = <<>>
       /\ UNCHANGED <<natsState, parsed>>
  /\ sock' = Written(sock, out')
  /\ invoked' = IF StartsWith(messageStr, "MSG") THEN Logged(invoked, parsed'.calls)
                                                ELSE invoked
  /\ Len(invoked') <= MaxInvoked
  /\ UNCHANGED <<urlConfigured, traced, ws, clientKeepAliveIntervalId, reconnectTimers,
                 stopRequested, stopFound, failures, newTokenCallbacks>>
  /\ UNCHANGED <<rpcVars, tradeVars>>

\* ErrorHandler as it would be if 'error' rescheduled as well as 'close'.
ErrorHandler_AlsoReconnects(s) ==
  /\ natsState' = "DISCONNECTED"
  /\ reconnectTimers' = reconnectTimers + 1
  /\ UNCHANGED clientKeepAliveIntervalId

\* ws.on('error'): only the state changes; the 'close' that follows reschedules
ErrorHandler(s) ==
  /\ natsState' = "DISCONNECTED"
  /\ UNCHANGED <<clientKeepAliveIntervalId, reconnectTimers>>

\* CloseHandler as it would be without the setTimeout of line 136.
CloseHandler_NoReconnect(s, sk) ==
  /\ natsState' = "DISCONNECTED"
  /\ clientKeepAliveIntervalId' = FALSE
  /\ reconnectTimers' = reconnectTimers
  /\ sock' = sk

\* CloseHandler as it would be without stopClientKeepAlive() (line 132).
CloseHandler_KeepsTimer(s, sk) ==
  /\ natsState' = "DISCONNECTED"
  /\ UNCHANGED clientKeepAliveIntervalId
  /\ reconnectTimers' = reconnectTimers + 1
  /\ sock' = [sk EXCEPT ![s].scheduled = @ + 1]

\* ws.on('close'), on the socket table sk in which s is already CLOSED
CloseHandler(s, sk) ==
  /\ natsState' = "DISCONNECTED"
  /\ clientKeepAliveIntervalId' = FALSE
  /\ reconnectTimers' = reconnectTimers + 1
  /\ sock' = [sk EXCEPT ![s].scheduled = @ + 1]

\* The library reports an error on an established connection: 'error' now,
\* 'close' once the connection is torn down (SocketClose).
SocketError(s) ==
  /\ sock[s].rs = "OPEN"
  /\ lastStep' = Step("error", s)
  /\ out' = <<>>
  /\ sock' = [sock EXCEPT ![s] = [@ EXCEPT !.rs = "CLOSING", !.rx = FALSE]]
  /\ IF sock[s].listeners
       THEN ErrorHandler(s)
       ELSE UNCHANGED <<natsState, clientKeepAliveIntervalId, reconnectTimers>>
  /\ UNCHANGED <<urlConfigured, traced, ws, parsed, stopRequested, stopFound, newTokenCallbacks, invoked, failures>>
  /\ UNCHANGED <<rpcVars, tradeVars>>

\* The connection ends: closed by the server, after an error, or after
\* stop() closed it.
SocketClose(s) ==
  /\ sock[s].rs \in {"OPEN", "CLOSING"}
  /\ lastStep' = Step("close", s)
  /\ out' = <<>>
  /\ LET sk == [sock EXCEPT ![s] = [@ EXCEPT !.rs = "CLOSED", !.rx = FALSE]] IN
     IF sock[s].listeners
       THEN CloseHandler(s, sk)
       ELSE /\ sock' = sk
            /\ UNCHANGED <<natsState, clientKeepAliveIntervalId, reconnectTimers>>
  /\ UNCHANGED <<urlConfigured, traced, ws, parsed, stopRequested, stopFound, newTokenCallbacks, invoked, failures>>
  /\ UNCHANGED <<rpcVars, tradeVars>>

\* The connect attempt fails: the library emits 'error' and then 'close' in
\* the same tick, so both handlers run before anything else.
SocketConnectFail(s) ==
  /\ sock[s].rs = "CONNECTING"
  /\ sock[s].listeners
  /\ lastStep' = Step("close", s)
  /\ out' = <<>>
  /\ CloseHandler(s, [sock EXCEPT ![s] = [@ EXCEPT !.rs = "CLOSED"]])
  /\ failures' = Min(failures + 1, MaxFailures)
  /\ UNCHANGED <<urlConfigured, traced, ws, parsed, stopRequested, stopFound, newTokenCallbacks, invoked>>
  /\ UNCHANGED <<rpcVars, tradeVars>>

\* The reconnect timer of the close handler fires: () => this.connect()
ReconnectTimerFires ==
  /\ reconnectTimers > 0
  /\ FreeSlots # {}
  /\ lastStep' = Step("reconnect", 0)
  /\ out' = <<>>
  /\ reconnectTimers' = reconnectTimers - 1
  /\ Connect(sock)
  /\ UNCHANGED <<urlConfigured, traced, clientKeepAliveIntervalId, parsed,
                 stopRequested, stopFound, newTokenCallbacks, invoked, failures>>
  /\ UNCHANGED <<rpcVars, tradeVars>>

\* KeepAliveTick as it would be if the tick looked at the socket only.
KeepAliveTick_InAnyState ==
  /\ clientKeepAliveIntervalId
  /\ lastStep' = Step("tick", 0)
  /\ out' = SendNatsCommand(sock, ws, <<"PING">>)
  /\ UNCHANGED <<urlConfigured, traced, natsState, ws, clientKeepAliveIntervalId,
                 reconnectTimers, sock, parsed, stopRequested, stopFound, newTokenCallbacks, invoked, failures>>
  /\ UNCHANGED <<rpcVars, tradeVars>>

\* The setInterval callback of startClientKeepAlive
KeepAliveTick ==
  /\ clientKeepAliveIntervalId
  /\ lastStep' = Step("tick", 0)
  /\ out' = IF natsState \in {"OPERATIONAL", "SUBSCRIBING", "CONNECTED_AWAITING_PONG"}
              THEN SendNatsCommand(sock, ws, <<"PING">>)
              ELSE <<>>
  /\ UNCHANGED <<urlConfigured, traced, natsState, ws, clientKeepAliveIntervalId,
                 reconnectTimers, sock, parsed, stopRequested, stopFound, newTokenCallbacks, invoked, failures>>
  /\ UNCHANGED <<rpcVars, tradeVars>>

(***************************************************************************)
(* Solana RPC service: the endpoint pool and executeRpcCall.               *)
(***************************************************************************)
\* The callers of executeRpcCall: each has one invocation at a time.
Callers == DOMAIN call

NoConnection == -1

\* Errors an action may reject with: the words of error.message, error.code.
NoError == [message |-> <<>>, code |-> "none"]
ErrTimeout == [message |-> <<"Request", "Timeout">>, code |-> "none"]
ErrReset == [message |-> <<"socket", "hang", "up">>, code |-> "ECONNRESET"]
ErrFetch == [message |-> <<"TypeError:", "Failed", "to", "fetch">>, code |-> "none"]
ErrInvalidParams == [message |-> <<"Invalid", "params">>, code |-> "-32602"]
ActionErrors == {ErrTimeout, ErrReset, ErrFetch, ErrInvalidParams}

\* new Error('SolanaService: Exhausted all RPC failover attempts.')
ExhaustedError ==
  [message |-> <<"SolanaService:", "Exhausted", "all", "RPC", "failover", "attempts.">>,
   code |-> "none"]

\* String.prototype.toLowerCase, word by word
LowerWord(w) ==
  CASE w = "Request" -> "request"
    [] w = "Timeout" -> "timeout"
    [] w = "TypeError:" -> "typeerror:"
    [] w = "Failed" -> "failed"
    [] w = "Invalid" -> "invalid"
    [] w = "SolanaService:" -> "solanaservice:"
    [] w = "Exhausted" -> "exhausted"
    [] w = "RPC" -> "rpc"
    [] OTHER -> w

ToLowerCase(m) == [i \in 1..Len(m) |-> LowerWord(m[i])]

\* String.prototype.includes, for a phrase of whole words
Includes(m, phrase) ==
  \E i \in 1..(Len(m) - Len(phrase) + 1) : SubSeq(m, i, i + Len(phrase) - 1) = phrase

FailoverPhrases ==
  {<<"failed", "to", "fetch">>, <<"network", "request", "failed">>, <<"timeout">>,
   <<"econnrefused">>, <<"econnreset">>, <<"enotfound">>, <<"esockettimedout">>,
   <<"service", "unavailable">>}

FailoverCodes == {"ECONNRESET", "ECONNREFUSED", "ENOTFOUND", "ESOCKETTIMEDOUT"}

isRpcFailoverError(error) ==
  \/ \E ph \in FailoverPhrases : Includes(ToLowerCase(error.message), ph)
  \/ error.code \in FailoverCodes

\* getSolanaConnection: the current connection, created on first use
getSolanaConnection(idx, cc) == IF cc = NoConnection THEN idx ELSE cc

\* switchToNextRpc as it would be without the modulo.
switchToNextRpc_Unwrapped(idx) == idx + 1

\* switchToNextRpc as it would be if the index were not advanced.
switchToNextRpc_KeepsIndex(idx) == idx % rpcEndpoints

\* switchToNextRpc: the new currentRpcIndex (and the endpoint of the new
\* currentConnection)
switchToNextRpc(idx) == (idx + 1) % rpcEndpoints

NoOutcome == [kind |-> "none", err |-> NoError, at |-> 0, rot |-> 0]

IdleCall ==
  [pc |-> "idle", cycle |-> 0, attempt |-> 0, conn |-> NoConnection,
   totalAttemptsAcrossRpcs |-> 0, rotations |-> 0, startIndex |-> 0,
   startConnection |-> NoConnection,
   overlapped |-> FALSE, tried |-> <<>>, lastOutcome |-> NoOutcome,
   result |-> [kind |-> "none", err |-> NoError]]

\* The outer loop from the head of cycle c (lines 66-70), run until the
\* action is called or the loop is left; AfterInnerLoop is lines 94-103 and
\* the cycle++ that follows.  idx and cc are currentRpcIndex and
\* currentConnection, rot the rotations made so far by this invocation.
RECURSIVE RunCycles(_, _, _, _)
RECURSIVE AfterInnerLoop(_, _, _, _)
RunCycles(c, idx, cc, rot) ==
  IF c >= rpcEndpoints
    THEN [exhausted |-> TRUE, cycle |-> c, conn |-> cc, idx |-> idx, cc |-> cc, rot |-> rot]
    ELSE LET conn == getSolanaConnection(idx, cc) IN
         IF 0 < rpcRetryAttempts
           THEN [exhausted |-> FALSE, cycle |-> c, conn |-> conn, idx |-> idx,
                 cc |-> conn, rot |-> rot]
           ELSE AfterInnerLoop(c, idx, conn, rot)

AfterInnerLoop(c, idx, cc, rot) ==
  IF c < rpcEndpoints - 1
    THEN RunCycles(c + 1, switchToNextRpc(idx), switchToNextRpc(idx), rot + 1)
    ELSE RunCycles(c + 1, idx, cc, rot)

\* The frame f of an invocation once the loop has run to r: the action has
\* been called (attempt 0 of cycle r.cycle), or line 104 has thrown.
Entered(f, r) ==
  IF r.exhausted
    THEN [f EXCEPT !.pc = "done", !.cycle = r.cycle, !.rotations = r.rot,
                   !.result = [kind |-> "error", err |-> ExhaustedError]]
    ELSE [f EXCEPT !.pc = "awaitAction", !.cycle = r.cycle, !.attempt = 0,
                   !.conn = r.conn, !.rotations = r.rot,
                   !.tried = Append(@, r.conn),
                   !.totalAttemptsAcrossRpcs = @ + 1]

Active(p) == call[p].pc \in {"awaitAction", "awaitDelay"}

\* Begin as it would be if every invocation started from the first endpoint
\* of the pool instead of the one left current.
Begin_FromFirstEndpoint(p) ==
  /\ call[p].pc \in {"idle", "done"}
  /\ LET fresh == [IdleCall EXCEPT !.startIndex = currentRpcIndex,
                                   !.startConnection = currentConnection,
                                   !.overlapped = \E q \in Callers \ {p} : Active(q)]
         r == RunCycles(0, 0, NoConnection, 0)
     IN  /\ currentRpcIndex' = r.idx
         /\ currentConnection' = r.cc
         /\ call' = [q \in Callers |->
                       IF q = p THEN Entered(fresh, r)
                       ELSE IF call[q].pc # "idle"
                         THEN [call[q] EXCEPT !.overlapped = TRUE]
                         ELSE call[q]]
  /\ UNCHANGED <<rpcEndpoints, rpcRetryAttempts>>
  /\ UNCHANGED <<sessionVars, tradeVars>>

\* executeRpcCall is invoked (from one of the query wrappers)
Begin(p) ==
  /\ call[p].pc \in {"idle", "done"}
  /\ LET fresh == [IdleCall EXCEPT !.startIndex = currentRpcIndex,
                                   !.startConnection = currentConnection,
                                   !.overlapped = \E q \in Callers \ {p} : Active(q)]
         r == RunCycles(0, currentRpcIndex, currentConnection, 0)
     IN  /\ currentRpcIndex' = r.idx
         /\ currentConnection' = r.cc
         /\ call' = [q \in Callers |->
                       IF q = p THEN Entered(fresh, r)
                       ELSE IF call[q].pc # "idle"
                         THEN [call[q] EXCEPT !.overlapped = TRUE]
                         ELSE call[q]]
  /\ UNCHANGED <<rpcEndpoints, rpcRetryAttempts>>
  /\ UNCHANGED <<sessionVars, tradeVars>>

\* Decide as it would be if a retriable error switched endpoints at once,
\* without using the attempts left on the current one.
Decide_SwitchesAtOnce(attempt, cycle, error) ==
  IF isRpcFailoverError(error) /\ cycle < rpcEndpoints - 1
    THEN "break"
    ELSE IF attempt < rpcRetryAttempts - 1 /\ isRpcFailoverError(error)
           THEN "retry"
           ELSE "throw"

\* Decide as it would be if the last attempt always left the inner loop, so
\* that an exhausted pool ends at line 104.
Decide_BreaksOnLastAttempt(attempt, cycle, error) ==
  IF attempt < rpcRetryAttempts - 1
    THEN IF isRpcFailoverError(error) THEN "retry" ELSE "throw"
    ELSE IF isRpcFailoverError(error) THEN "break" ELSE "throw"

\* Decide as it would be if every error were retried while attempts remain.
Decide_RetriesAnyError(attempt, cycle, error) ==
  IF attempt < rpcRetryAttempts - 1
    THEN "retry"
    ELSE IF isRpcFailoverError(error) /\ cycle < rpcEndpoints - 1
           THEN "break"
           ELSE "throw"

\* What the catch block does with error (lines 77-91): wait and retry on the
\* same endpoint, break to switch the endpoint, or rethrow.
Decide(attempt, cycle, error) ==
  IF attempt < rpcRetryAttempts - 1
    THEN IF isRpcFailoverError(error) THEN "retry" ELSE "throw"
    ELSE IF isRpcFailoverError(error) /\ cycle < rpcEndpoints - 1
           THEN "break"
           ELSE "throw"

\* ActionResolves as it would be if success left the inner loop with break
\* instead of returning: the outer loop goes on.
ActionResolves_Breaks(p) ==
  /\ call[p].pc = "awaitAction"
  /\ LET seen == [call EXCEPT ![p].lastOutcome =
                    [kind |-> "ok", err |-> NoError,
                     at |-> call[p].totalAttemptsAcrossRpcs,
                     rot |-> call[p].rotations]]
         r == AfterInnerLoop(call[p].cycle, currentRpcIndex, currentConnection,
                             call[p].rotations)
     IN  /\ currentRpcIndex' = r.idx
         /\ currentConnection' = r.cc
         /\ call' = [seen EXCEPT ![p] = Entered(@, r)]
  /\ UNCHANGED <<rpcEndpoints, rpcRetryAttempts>>
  /\ UNCHANGED <<sessionVars, tradeVars>>

\* ActionResolves as it would be if a success moved the pool on to the next
\* endpoint (a pool balancing its load).
ActionResolves_Advances(p) ==
  /\ call[p].pc = "awaitAction"
  /\ call' = [call EXCEPT ![p] =
       [@ EXCEPT !.pc = "done",
                 !.lastOutcome = [kind |-> "ok", err |-> NoError,
                                  at |-> call[p].totalAttemptsAcrossRpcs,
                                  rot |-> call[p].rotations],
                 !.result = [kind |-> "ok", err |-> NoError]]]
  /\ currentRpcIndex' = switchToNextRpc(currentRpcIndex)
  /\ currentConnection' = switchToNextRpc(currentRpcIndex)
  /\ UNCHANGED <<rpcEndpoints, rpcRetryAttempts>>
  /\ UNCHANGED <<sessionVars, tradeVars>>

\* The awaited action(conn) resolves: line 73 returns its value
ActionResolves(p) ==
  /\ call[p].pc = "awaitAction"
  /\ call' = [call EXCEPT ![p] =
       [@ EXCEPT !.pc = "done",
                 !.lastOutcome = [kind |-> "ok", err |-> NoError,
                                  at |-> call[p].totalAttemptsAcrossRpcs,
                                  rot |-> call[p].rotations],
                 !.result = [kind |-> "ok", err |-> NoError]]]
  /\ UNCHANGED <<rpcEndpoints, rpcRetryAttempts, currentRpcIndex, currentConnection>>
  /\ UNCHANGED <<sessionVars, tradeVars>>

\* The awaited action(conn) rejects with error: the catch block
ActionRejects(p, error) ==
  /\ call[p].pc = "awaitAction"
  /\ LET seen == [call EXCEPT ![p].lastOutcome =
                    [kind |-> "error", err |-> error,
                     at |-> call[p].totalAttemptsAcrossRpcs,
                     rot |-> call[p].rotations]]
         d == Decide(call[p].attempt, call[p].cycle, error)
     IN  CASE d = "retry" ->
                /\ call' = [seen EXCEPT ![p].pc = "awaitDelay"]
                /\ UNCHANGED <<currentRpcIndex, currentConnection>>
           [] d = "throw" ->
                /\ call' = [seen EXCEPT ![p].pc = "done",
                                        ![p].result = [kind |-> "error", err |-> error]]
                /\ UNCHANGED <<currentRpcIndex, currentConnection>>
           [] d = "break" ->
                LET r == AfterInnerLoop(call[p].cycle, currentRpcIndex,
                                        currentConnection, call[p].rotations)
                IN  /\ currentRpcIndex' = r.idx
                    /\ currentConnection' = r.cc
                    /\ call' = [seen EXCEPT ![p] = Entered(@, r)]
  /\ UNCHANGED <<rpcEndpoints, rpcRetryAttempts>>
  /\ UNCHANGED <<sessionVars, tradeVars>>

\* DelayElapses as it would be if the inner loop did not count the attempt.
DelayElapses_KeepsAttempt(p) ==
  /\ call[p].pc = "awaitDelay"
  /\ call' = [call EXCEPT ![p] =
       [@ EXCEPT !.pc = "awaitAction", !.totalAttemptsAcrossRpcs = @ + 1]]
  /\ UNCHANGED <<rpcEndpoints, rpcRetryAttempts, currentRpcIndex, currentConnection>>
  /\ UNCHANGED <<sessionVars, tradeVars>>

\* The rpcRetryDelayMs timer of line 79 fires: attempt++, the action is
\* called again on the same connection
DelayElapses(p) ==
  /\ call[p].pc = "awaitDelay"
  /\ call' = [call EXCEPT ![p] =
       [@ EXCEPT !.pc = "awaitAction", !.attempt = @ + 1,
                 !.totalAttemptsAcrossRpcs = @ + 1]]
  /\ UNCHANGED <<rpcEndpoints, rpcRetryAttempts, currentRpcIndex, currentConnection>>
  /\ UNCHANGED <<sessionVars, tradeVars>>

\* The query wrappers built on executeRpcCall
Wrappers ==
  {"getAccountInfo", "getParsedAccountInfo", "getTokenSupply",
   "getTokenAccountBalance", "getSolBalance", "getTokenAccountsByOwner"}

\* What a wrapper returns when nothing could be fetched (its catch block)
Fallback(w) == IF w = "getTokenAccountsByOwner" THEN "emptyList" ELSE "null"

\* WrapperReturns as it would be without the try/catch around the executor.
WrapperReturns_NoCatch(w, result) ==
  IF result.kind = "error"
    THEN [kind |-> "throw", value |-> result.err]
    ELSE [kind |-> "return", value |-> "fetched"]

\* How wrapper w ends once its executeRpcCall has ended with result: the
\* value derived from what was fetched, or, in the catch block, the fallback.
WrapperReturns(w, result) ==
  IF result.kind = "error"
    THEN [kind |-> "return", value |-> Fallback(w)]
    ELSE [kind |-> "return", value |-> "fetched"]

(***************************************************************************)
(* Trading: handleNewToken (src/src/trading/jupiter_trader.ts), the        *)
(* RiskManager (src/unnamed/part_002) and the positions it keeps in Redis  *)
(* (src/src/services/redis_service.ts).  A position is modelled by its     *)
(* mint, entryPriceSol and amountTokenLamports; initialSolInvested is the  *)
(* configured amount per trade in every position.                          *)
(***************************************************************************)
Tokens == {"T1", "T2"}

Handlers == 1..MaxHandlers

Amounts == 0..MaxAmount

\* entryPriceSolPerToken (line 438): the SOL spent divided by the tokens
\* bought, which JavaScript evaluates to Infinity when outAmount is "0".
EntryPrice(amountTokenBoughtLamports) ==
  IF amountTokenBoughtLamports = 0
    THEN [kind |-> "Infinity", per |-> 0]
    ELSE [kind |-> "number", per |-> amountTokenBoughtLamports]

\* JSON.stringify of a number: its digits, or null when it is not finite
NumberText(v) ==
  IF v.kind = "number" THEN [text |-> "digits", per |-> v.per]
                       ELSE [text |-> "null", per |-> 0]

\* JSON.parse of that text
ParsedNumber(txt) ==
  IF txt.text = "digits" THEN [kind |-> "number", per |-> txt.per]
                         ELSE [kind |-> "null", per |-> 0]

\* The MonitoredPosition literal of addPosition (lines 90-97)
Position(tokenMintAddress, entryPriceSol, amountTokenLamports) ==
  [tokenMintAddress |-> tokenMintAddress, entryPriceSol |-> entryPriceSol,
   amountTokenLamports |-> amountTokenLamports]

\* saveActivePosition: the value written under the position's key
Stringified(position) ==
  [tokenMintAddress |-> position.tokenMintAddress,
   entryPriceSol |-> NumberText(position.entryPriceSol),
   amountTokenLamports |-> position.amountTokenLamports]

\* loadActivePositions: JSON.parse of one stored value
Parsed(val) ==
  Position(val.tokenMintAddress, ParsedNumber(val.entryPriceSol), val.amountTokenLamports)

\* A Map or key space without entries; an entry is <<value>>
NoEntries == [t \in Tokens |-> <<>>]

\* getActivePositionCount: monitoredPositions.size
getActivePositionCount(mp) == Cardinality({t \in Tokens : mp[t] # <<>>})

\* startMonitoringForPosition: the map once it has returned
startMonitoringForPosition(mp, position, isLoadedFromRedis) ==
  IF mp[position.tokenMintAddress] # <<>> /\ ~isLoadedFromRedis
    THEN mp
    ELSE [mp EXCEPT ![position.tokenMintAddress] = <<position>>]

\* loadPositionsFromRedis on the map mp, the server holding stored
loadPositionsFromRedis(mp, stored) ==
  [t \in Tokens |->
     IF stored[t] # <<>> /\ mp[t] = <<>>
       THEN startMonitoringForPosition(mp, Parsed(stored[t][1]), TRUE)[t]
       ELSE mp[t]]

IdleHandler == [pc |-> "idle", token |-> ""]

\* A command of the ioredis client, sent for invocation by (0: the sell path)
Command(op, key, value, by) == [op |-> op, key |-> key, value |-> value, by |-> by]

\* The listener calls handleNewToken for a graduated token: up to the await
\* of analyzeToken (line 404)
handleNewToken(h, tokenAddress) ==
  /\ handler[h].pc = "idle"
  /\ handler' = [handler EXCEPT ![h] = [pc |-> "analyzing", token |-> tokenAddress]]
  /\ UNCHANGED <<maxOpenTrades, monitoredPositions, redis, pending>>
  /\ UNCHANGED <<check, sold>>
  /\ UNCHANGED <<sessionVars, rpcVars>>

\* analyzeToken settles: the limit is read (lines 408-409), and the handler
\* goes on to buy or ends
AnalysisSettles(h, passed) ==
  /\ handler[h].pc = "analyzing"
  /\ handler' = [handler EXCEPT ![h] =
       IF passed /\ getActivePositionCount(monitoredPositions) < maxOpenTrades
         THEN [@ EXCEPT !.pc = "buying"]
         ELSE IdleHandler]
  /\ UNCHANGED <<maxOpenTrades, monitoredPositions, redis, pending>>
  /\ UNCHANGED <<check, sold>>
  /\ UNCHANGED <<sessionVars, rpcVars>>

\* The awaits of lines 418-435 have settled (notifier, getTokenDecimals,
\* buyToken, notifier, getQuote): with a txid and a quote, addPosition runs
\* up to its await of saveActivePosition (lines 440, 90-99)
BuySettles(h, bought, quoteForEntry) ==
  /\ handler[h].pc = "buying"
  /\ IF bought /\ quoteForEntry # <<>>
       THEN LET amountTokenBoughtLamports == quoteForEntry[1]
                position == Position(handler[h].token,
                                     EntryPrice(amountTokenBoughtLamports),
                                     amountTokenBoughtLamports)
            IN  /\ Len(pending) < MaxPending
                /\ monitoredPositions' =
                     startMonitoringForPosition(monitoredPositions, position, FALSE)
                /\ pending' = Append(pending,
                     Command("set", position.tokenMintAddress, <<Stringified(position)>>, h))
                /\ handler' = [handler EXCEPT ![h].pc = "saving"]
       ELSE /\ handler' = [handler EXCEPT ![h] = IdleHandler]
            /\ UNCHANGED <<monitoredPositions, pending>>
  /\ UNCHANGED <<maxOpenTrades, redis>>
  /\ UNCHANGED <<check, sold>>
  /\ UNCHANGED <<sessionVars, rpcVars>>

\* The sell of a monitored position has returned a txid (executeSell, line
\* 146): removePosition runs up to its await of removeActivePosition
SellSettles(tokenMintAddress) ==
  /\ monitoredPositions[tokenMintAddress] # <<>>
  /\ Len(pending) < MaxPending
  /\ monitoredPositions' = [monitoredPositions EXCEPT ![tokenMintAddress] = <<>>]
  /\ pending' = Append(pending, Command("del", tokenMintAddress, <<>>, 0))
  /\ UNCHANGED <<maxOpenTrades, redis, handler>>
  /\ UNCHANGED <<check, sold>>
  /\ UNCHANGED <<sessionVars, rpcVars>>

\* Redis executes the oldest command and answers it: the call that awaits
\* the answer returns
RedisReplies ==
  /\ pending # <<>>
  /\ LET c == Head(pending) IN
       /\ redis' = [redis EXCEPT ![c.key] = c.value]
       /\ handler' = IF c.by = 0 THEN handler
                                 ELSE [handler EXCEPT ![c.by] = IdleHandler]
  /\ pending' = Tail(pending)
  /\ UNCHANGED <<maxOpenTrades, monitoredPositions>>
  /\ UNCHANGED <<check, sold>>
  /\ UNCHANGED <<sessionVars, rpcVars>>

\* The invocations of checkPosition: every tick of a position's interval
\* starts one, whether or not the one before it has returned.
Checks == DOMAIN check

IdleCheck == [pc |-> "idle", position |-> <<>>]

\* appConfig.takeProfitPercentage and appConfig.stopLossPercentage (their
\* defaults), in hundredths
takeProfitPercentage == 100
stopLossPercentage == 20

\* What getQuote resolves to: nothing, or the SOL value of the position in
\* hundredths of initialSolInvested
QuoteResponses == {<<>>, <<0>>, <<80>>, <<100>>, <<200>>}

\* A tick of the interval of a monitored position (lines 67-71):
\* checkPosition up to its await of getQuote (lines 103-112)
checkPosition(c, tokenMintAddress) ==
  /\ check[c].pc = "idle"
  /\ monitoredPositions[tokenMintAddress] # <<>>
  /\ check' = [check EXCEPT ![c] =
       [pc |-> "quoting", position |-> monitoredPositions[tokenMintAddress]]]
  /\ UNCHANGED <<maxOpenTrades, monitoredPositions, redis, pending, handler, sold>>
  /\ UNCHANGED <<sessionVars, rpcVars>>

\* getQuote settles (lines 114-133): without a quote, or between the two
\* thresholds, the check ends; at take-profit or stop-loss executeSell runs
\* up to its await of sellToken (lines 136-143)
QuoteSettles(c, quoteResponse) ==
  /\ check[c].pc = "quoting"
  /\ check' = [check EXCEPT ![c] =
       IF quoteResponse = <<>>
         THEN IdleCheck
         ELSE IF quoteResponse[1] >= 100 + takeProfitPercentage
                THEN [@ EXCEPT !.pc = "selling"]
                ELSE IF quoteResponse[1] <= 100 - stopLossPercentage
                       THEN [@ EXCEPT !.pc = "selling"]
                       ELSE IdleCheck]
  /\ UNCHANGED <<maxOpenTrades, monitoredPositions, redis, pending, handler, sold>>
  /\ UNCHANGED <<sessionVars, rpcVars>>

\* sellToken settles (lines 145-151): with a txid removePosition runs up to
\* its await of removeActivePosition (lines 155-161), whose answer nothing
\* waits for but the return; without one the position stays monitored
SellReturns(c, txid) ==
  /\ check[c].pc = "selling"
  /\ LET tokenMintAddress == check[c].position[1].tokenMintAddress IN
       IF txid
         THEN /\ Len(pending) < MaxPending
              /\ monitoredPositions' =
                   [monitoredPositions EXCEPT ![tokenMintAddress] = <<>>]
              /\ pending' = Append(pending, Command("del", tokenMintAddress, <<>>, 0))
              /\ sold' = sold \cup {tokenMintAddress}
         ELSE UNCHANGED <<monitoredPositions, pending, sold>>
  /\ check' = [check EXCEPT ![c] = IdleCheck]
  /\ UNCHANGED <<maxOpenTrades, redis, handler>>
  /\ UNCHANGED <<sessionVars, rpcVars>>

\* The positions of a running bot: each token bought once and saved, or not
\* held.
MonitorInit ==
  /\ maxOpenTrades = MaxOpenTrades
  /\ \E held \in SUBSET Tokens :
       /\ held # {}
       /\ monitoredPositions =
            [t \in Tokens |-> IF t \in held THEN <<Position(t, EntryPrice(1), 1)>>
                                             ELSE <<>>]
       /\ redis =
            [t \in Tokens |-> IF t \in held
                                THEN <<Stringified(Position(t, EntryPrice(1), 1))>>
                                ELSE <<>>]
  /\ pending = <<>>
  /\ handler = [h \in {1} |-> IdleHandler]
  /\ check = [c \in 1..MaxChecks |-> IdleCheck]
  /\ sold = {}

\* A first start: no position in memory, none in Redis
TradeInit ==
  /\ maxOpenTrades \in 1..MaxOpenTrades
  /\ monitoredPositions = NoEntries
  /\ redis = NoEntries
  /\ pending = <<>>
  /\ handler = [h \in Handlers |-> IdleHandler]
  /\ check = [c \in {1} |-> IdleCheck]
  /\ sold = {}

\* Trading while another specification runs: no token is handled.
TradeUnused ==
  /\ maxOpenTrades = 2
  /\ monitoredPositions = NoEntries
  /\ redis = NoEntries
  /\ pending = <<>>
  /\ handler = [h \in {1} |-> IdleHandler]
  /\ check = [c \in {1} |-> IdleCheck]
  /\ sold = {}

\* One caller: its invocations of executeRpcCall run one after another.
RpcInit ==
  /\ rpcEndpoints \in 1..MaxEndpoints
  /\ rpcRetryAttempts \in 0..MaxAttempts
  /\ currentRpcIndex = 0
  /\ currentConnection = NoConnection
  /\ call = [p \in {1} |-> IdleCall]

\* The RPC service while a session specification runs: one endpoint, unused.
RpcUnused ==
  /\ rpcEndpoints = 1
  /\ rpcRetryAttempts = 3
  /\ currentRpcIndex = 0
  /\ currentConnection = NoConnection
  /\ call = [p \in {1} |-> IdleCall]

SessionInit ==
  /\ urlConfigured \in BOOLEAN
  /\ natsState = "DISCONNECTED"
  /\ ws = 0
  /\ clientKeepAliveIntervalId = FALSE
  /\ reconnectTimers = 0
  /\ sock = [s \in Sockets |-> NoSocket]
  /\ lastStep = Step("new", 0)
  /\ out = <<>>
  /\ parsed = NoParse
  /\ stopRequested = FALSE
  /\ failures = 0
  /\ stopFound = "none"
  /\ newTokenCallbacks = <<>>
  /\ invoked = <<>>

vars == <<sessionVars, rpcVars, tradeVars>>

SessionNext ==
  \/ Start
  \/ Stop
  \/ \E s \in Sockets : SocketOpen(s)
  \/ \E s \in Sockets : \E data \in SessionFrames : SocketMessage(s, data)
  \/ \E s \in Sockets : SocketError(s)
  \/ \E s \in Sockets : SocketClose(s)
  \/ \E s \in Sockets : SocketConnectFail(s)
  \/ ReconnectTimerFires
  \/ KeepAliveTick

InitSession == SessionInit /\ RpcUnused /\ TradeUnused /\ traced = FALSE

\* The same session with the history of stops and of sockets' SUBs kept.
InitSessionTraced == SessionInit /\ RpcUnused /\ TradeUnused /\ traced = TRUE

SpecSession == InitSession /\ [][SessionNext]_vars

SpecSessionTraced == InitSessionTraced /\ [][SessionNext]_vars

\* The traced session over the frames of the handshake: INFO, an early PING
\* and the acknowledgment +OK.
HandshakeFrames == {INFO_FRAME, PING_FRAME, OK_FRAME}

SessionHandshakeNext ==
  \/ Start
  \/ Stop
  \/ \E s \in Sockets : SocketOpen(s)
  \/ \E s \in Sockets : \E data \in HandshakeFrames : SocketMessage(s, data)
  \/ \E s \in Sockets : SocketError(s)
  \/ \E s \in Sockets : SocketClose(s)
  \/ \E s \in Sockets : SocketConnectFail(s)
  \/ ReconnectTimerFires

SpecSessionHandshake == InitSessionTraced /\ [][SessionHandshakeNext]_vars

\* The session while stop() is never called; timers that are due fire.
SessionLiveNext ==
  \/ Start
  \/ \E s \in Sockets : SocketOpen(s)
  \/ \E s \in Sockets : \E data \in SessionFrames : SocketMessage(s, data)
  \/ \E s \in Sockets : SocketError(s)
  \/ \E s \in Sockets : SocketClose(s)
  \/ \E s \in Sockets : SocketConnectFail(s)
  \/ ReconnectTimerFires
  \/ KeepAliveTick

SpecSessionLive ==
  InitSession /\ [][SessionLiveNext]_vars /\ WF_vars(ReconnectTimerFires)

\* The session while an RPC specification runs: never started.
SessionUnused ==
  /\ SessionInit
  /\ urlConfigured = TRUE
  /\ traced = FALSE

RpcNext ==
  \/ \E p \in Callers : Begin(p)
  \/ \E p \in Callers : ActionResolves(p)
  \/ \E p \in Callers : \E error \in ActionErrors : ActionRejects(p, error)
  \/ \E p \in Callers : DelayElapses(p)

InitRpc == RpcInit /\ SessionUnused /\ TradeUnused

SpecRpc == InitRpc /\ [][RpcNext]_vars

\* The awaited action(conn) settles, one way or the other
ActionSettles(p) ==
  \/ ActionResolves(p)
  \/ \E error \in ActionErrors : ActionRejects(p, error)

\* The same caller where every call of the action settles and every retry
\* delay elapses.
SpecRpcLive ==
  /\ InitRpc /\ [][RpcNext]_vars
  /\ WF_vars(ActionSettles(1))
  /\ WF_vars(DelayElapses(1))

\* Several callers share the pool: their invocations interleave at every
\* await.  The pool has at least two endpoints and every endpoint at least
\* one attempt.
RpcSharedInit ==
  /\ rpcEndpoints \in 2..MaxEndpoints
  /\ rpcRetryAttempts \in 1..MaxAttempts
  /\ currentRpcIndex = 0
  /\ currentConnection = NoConnection
  /\ call = [p \in 1..MaxShared |-> IdleCall]

InitRpcShared == RpcSharedInit /\ SessionUnused /\ TradeUnused

SpecRpcShared == InitRpcShared /\ [][RpcNext]_vars

TradeNext ==
  \/ \E h \in Handlers : \E tokenAddress \in Tokens : handleNewToken(h, tokenAddress)
  \/ \E h \in Handlers : \E passed \in BOOLEAN : AnalysisSettles(h, passed)
  \/ \E h \in Handlers : \E bought \in BOOLEAN :
       \E quoteForEntry \in {<<>>} \cup {<<a>> : a \in Amounts} :
         BuySettles(h, bought, quoteForEntry)
  \/ \E tokenMintAddress \in Tokens : SellSettles(tokenMintAddress)
  \/ RedisReplies

InitTrade == TradeInit /\ SessionUnused /\ RpcUnused

MonitorNext ==
  \/ \E c \in Checks : \E tokenMintAddress \in Tokens : checkPosition(c, tokenMintAddress)
  \/ \E c \in Checks : \E quoteResponse \in QuoteResponses : QuoteSettles(c, quoteResponse)
  \/ \E c \in Checks : \E txid \in BOOLEAN : SellReturns(c, txid)
  \/ RedisReplies

InitMonitor == MonitorInit /\ SessionUnused /\ RpcUnused

SpecMonitor == InitMonitor /\ [][MonitorNext]_vars

SpecTrade == InitTrade /\ [][TradeNext]_vars

(***************************************************************************)
(* handleNatsMsg on its own: an operational session receives data frames.  *)
(***************************************************************************)
\* The decimal text of a byte count
DigitText(n) ==
  CASE n = 0 -> "0" [] n = 1 -> "1" [] n = 2 -> "2" [] n = 3 -> "3" [] n = 4 -> "4"
    [] n = 5 -> "5" [] n = 6 -> "6" [] n = 7 -> "7" [] n = 8 -> "8" [] OTHER -> "9"

PayloadBytes == {"x", SP, CR, LF}

Payloads == UNION {[1..n -> PayloadBytes] : n \in 0..MaxPayload}

\* MSG <subject> <sid> [<reply-to>] <#bytes>\r\n<payload>\r\n
MsgFrame(subject, sid, replyTo, payload) ==
  <<"MSG", SP, subject, SP, sid, SP>> \o replyTo \o
  <<DigitText(Len(payload)), CR, LF>> \o payload \o <<CR, LF>>

\* WebSocket messages that start with a data frame: the frame alone, or the
\* frame with the server's next frame behind it in the same message.
ParseFrames ==
  {MsgFrame("advancedCoinGraduated", SID_ADVANCED_COIN_GRADUATED, replyTo, payload) \o rest :
     replyTo \in {<<>>, <<"_INBOX.1", SP>>},
     payload \in Payloads,
     rest \in {<<>>, PING_FRAME}}

\* A session that has subscribed and been acknowledged on its first socket.
InitParse ==
  /\ urlConfigured = TRUE
  /\ natsState = "OPERATIONAL"
  /\ ws = 1
  /\ clientKeepAliveIntervalId = TRUE
  /\ reconnectTimers = 0
  /\ sock = [s \in Sockets |->
               IF s = 1 THEN [rs |-> "OPEN", rx |-> TRUE, listeners |-> TRUE,
                              scheduled |-> 0, subs |-> 0, hello |-> FALSE]
                        ELSE NoSocket]
  /\ lastStep = [op |-> "message", sock |-> 1, data |-> OK_FRAME]
  /\ out = <<>>
  /\ parsed = NoParse
  /\ stopRequested = FALSE
  /\ failures = 0
  /\ stopFound = "none"
  /\ newTokenCallbacks = <<>>
  /\ invoked = <<>>
  /\ traced = FALSE
  /\ RpcUnused
  /\ TradeUnused

ParseNext == \E data \in ParseFrames : SocketMessage(1, data)

SpecParse == InitParse /\ [][ParseNext]_vars

(***************************************************************************)
(* Decoding and dispatch: an operational session with consumers receives   *)
(* data frames whose payloads are JSON texts.                              *)
(***************************************************************************)
\* The objects the server publishes, as the members written in order.
Member(key, value) == [k |-> key, v |-> value]

SampleObjects ==
  {<<Member("mint", JsString(<<"X">>)), Member("address", JsString(<<"Y">>))>>,
   <<Member("coinMint", JsString(<<"C">>)), Member("mint", JsString(<<"X">>))>>,
   <<Member("coinMint", JsString(<<>>)), Member("mint", JsString(<<"X">>))>>,
   <<Member("mint", JsNull), Member("token_address", JsString(<<"T">>))>>,
   <<Member("token_address", JsNumber(0)), Member("address", JsString(<<"Y">>))>>,
   <<Member("address", JsString(<<"Y">>)), Member("name", JsString(<<"N">>))>>,
   <<Member("address", JsNumber(7))>>,
   <<Member("coinMint", JsString(<<>>)), Member("address", JsNull)>>,
   <<Member("name", JsString(<<"N">>))>>,
   <<>>}

\* The object with the members ms
ObjectOf(ms) ==
  JsObject([key \in {ms[i].k : i \in 1..Len(ms)} |->
              ms[CHOOSE i \in 1..Len(ms) :
                   ms[i].k = key /\ \A j \in (i + 1)..Len(ms) : ms[j].k # key].v])

\* JSON.stringify of a scalar value
ScalarText(v) ==
  CASE v.t = "string" -> JsonStringify(v.s)
    [] v.t = "number" -> IF v.n = 0 THEN <<"0">> ELSE <<"7">>
    [] OTHER -> <<"null">>

RECURSIVE MembersText(_)
MembersText(ms) ==
  IF ms = <<>> THEN <<>>
  ELSE <<Q0, Head(ms).k, Q0, ":">> \o ScalarText(Head(ms).v) \o
       (IF Len(ms) > 1 THEN <<",">> \o MembersText(Tail(ms)) ELSE <<>>)

\* The JSON text of the object with the members ms
ObjectText(ms) == <<"{">> \o MembersText(ms) \o <<"}">>

\* The text encoded depth times: 1 is the plain JSON text, 2 the text as a
\* JSON string, 3 that string as a JSON string again.
RECURSIVE Encoded(_, _)
Encoded(text, depth) ==
  IF depth <= 1 THEN text ELSE Encoded(JsonStringify(text), depth - 1)

MaxDepth == 3

\* Payloads that are not an object however often they are decoded
OtherPayloads ==
  {<<"null">>, <<"7">>, JsonStringify(<<"null">>), <<"{", Q0, "mint", Q0, ":">>,
   JsonStringify(<<"X">>), <<"x">>}

\* A data frame on subject with subscription id sid
DataFrame(subject, sid, payload) ==
  <<"MSG", SP, subject, SP, sid, SP, "#bytes", CR, LF>> \o payload \o <<CR, LF>>

GraduatedFrames ==
  {DataFrame("advancedCoinGraduated", SID_ADVANCED_COIN_GRADUATED, Encoded(ObjectText(ms), depth)) :
     ms \in SampleObjects, depth \in 1..MaxDepth}
  \cup {DataFrame("advancedCoinGraduated", SID_ADVANCED_COIN_GRADUATED, payload) :
          payload \in OtherPayloads}

OtherSubscriptionFrames ==
  {DataFrame("advancedNewCoinCreated", SID_ADVANCED_NEW_COIN_CREATED,
             ObjectText(<<Member("mint", JsString(<<"X">>))>>)),
   DataFrame("coinImageUpdated.X", SID_COIN_IMAGE_UPDATED,
             ObjectText(<<Member("mint", JsString(<<"X">>))>>)),
   DataFrame("advancedNewCoinCreated", SID_ADVANCED_COIN_GRADUATED,
             ObjectText(<<Member("mint", JsString(<<"X">>))>>))}

\* Data frames that break the format of line 170: a header of fewer than
\* four fields in all, no CR LF between header and payload, and a byte count
\* of 0 on a payload of 12 bytes.
TooFewFieldsFrame ==
  <<"MSG", SP, "advancedCoinGraduated", CR, LF>> \o
  ObjectText(<<Member("mint", JsString(<<"X">>))>>) \o <<CR, LF>>

NoSeparatorFrame ==
  <<"MSG", SP, "advancedCoinGraduated", SP, SID_ADVANCED_COIN_GRADUATED, SP, "#bytes", SP>> \o
  ObjectText(<<Member("mint", JsString(<<"X">>))>>)

MiscountedFrame ==
  <<"MSG", SP, "advancedCoinGraduated", SP, SID_ADVANCED_COIN_GRADUATED, SP, "0", CR, LF>> \o
  ObjectText(<<Member("mint", JsString(<<"X">>))>>) \o <<CR, LF>>

MalformedFrames == {TooFewFieldsFrame, NoSeparatorFrame, MiscountedFrame}

DispatchFrames == GraduatedFrames \cup OtherSubscriptionFrames \cup MalformedFrames

DispatchNext ==
  \/ \E kind \in ConsumerKinds : AddTokenCallback(kind)
  \/ \E data \in DispatchFrames : SocketMessage(1, data)

\* From a session that has subscribed and been acknowledged on its first
\* socket, with no consumer registered yet.
SpecDispatch == InitParse /\ [][DispatchNext]_vars

\* The session with consumers registered, over frames that move it to
\* OPERATIONAL and one data frame that names a token; sockets close without
\* error.
MintFrame ==
  DataFrame("advancedCoinGraduated", SID_ADVANCED_COIN_GRADUATED,
            ObjectText(<<Member("mint", JsString(<<"X">>))>>))

ConsumerFrames == {INFO_FRAME, PONG_FRAME, MintFrame}

SessionConsumersNext ==
  \/ Start
  \/ Stop
  \/ \E s \in Sockets : SocketOpen(s)
  \/ \E s \in Sockets : \E data \in ConsumerFrames : SocketMessage(s, data)
  \/ \E s \in Sockets : SocketClose(s)
  \/ ReconnectTimerFires
  \/ \E kind \in ConsumerKinds : AddTokenCallback(kind)

SpecSessionConsumers == InitSession /\ [][SessionConsumersNext]_vars

(***************************************************************************)
(* Properties of the session.                                              *)
(***************************************************************************)
\* connect() created a WebSocket in this step.
NewSocket == \E s \in Sockets : sock[s].rs \in {"NONE", "CLOSED"} /\ sock'[s].rs = "CONNECTING"

\* connect() always finds room for the socket it creates.
TimerFindsSlot == reconnectTimers > 0 => FreeSlots # {}

\* C1: once stop() has been called with a reconnect timer pending, and until
\* start() is called again, no connect attempt is made and the state stays
\* DISCONNECTED.
C1_StopCancelsPendingReconnect ==
  [][(stopRequested /\ stopRequested' /\ reconnectTimers > 0)
       => (natsState' = "DISCONNECTED" /\ ~NewSocket)]_vars

\* C2: for every connection whose close and error listeners are attached
\* (stop() was not called on it): its 'error' event sets the state to
\* DISCONNECTED and leaves the rescheduling to the 'close' that follows; its
\* 'close' event sets the state to DISCONNECTED and schedules one reconnect;
\* over its lifetime the connection schedules exactly one reconnect.
C2_OneReconnectPerTermination ==
  /\ [](\A s \in Sockets :
          /\ sock[s].scheduled <= 1
          /\ (sock[s].rs = "CLOSED" /\ sock[s].listeners) => sock[s].scheduled = 1
          /\ (sock[s].rs # "CLOSED") => sock[s].scheduled = 0)
  /\ [][\A s \in Sockets :
          /\ (sock[s].listeners /\ sock[s].rs # "CLOSED" /\ sock'[s].rs = "CLOSED")
               => /\ natsState' = "DISCONNECTED"
                  /\ reconnectTimers' = reconnectTimers + 1
          /\ (sock[s].listeners /\ lastStep'.op = "error" /\ lastStep'.sock = s)
               => /\ natsState' = "DISCONNECTED"
                  /\ reconnectTimers' = reconnectTimers]_vars

\* A connection that errored while established has closed: state
\* DISCONNECTED and its single reconnect pending.
C2_Witness ==
  \E s \in Sockets :
    /\ lastStep = Step("close", s)
    /\ sock[s].rs = "CLOSED" /\ sock[s].listeners /\ sock[s].scheduled = 1
    /\ natsState = "DISCONNECTED"
    /\ reconnectTimers = 1
    /\ ~stopRequested

PongAndSubscribe(w) ==
  <<[to |-> w, cmd |-> <<"PONG">>],
    [to |-> w, cmd |-> <<"SUB", "coinImageUpdated.>", "1">>],
    [to |-> w, cmd |-> <<"SUB", "advancedCoinGraduated", "2">>],
    [to |-> w, cmd |-> <<"SUB", "advancedNewCoinCreated", "3">>]>>

C10_AlwaysReconnects ==
  (lastStep.op = "close") ~> (lastStep.op = "reconnect")

\* The reconnect timer has fired after MaxFailures connect attempts failed
\* in a row.
C10_Witness ==
  /\ lastStep.op = "reconnect"
  /\ failures = MaxFailures
  /\ natsState = "CONNECTING"

\* The three SUB frames of the first connection, written to socket s.
ThreeSubs(s) ==
  <<[to |-> s, cmd |-> <<"SUB", "coinImageUpdated.>", "1">>],
    [to |-> s, cmd |-> <<"SUB", "advancedCoinGraduated", "2">>],
    [to |-> s, cmd |-> <<"SUB", "advancedNewCoinCreated", "3">>]>>

\* The last frames of out are the three SUB frames to s.
EndsWithThreeSubs(o, s) ==
  Len(o) >= 3 /\ SubSeq(o, Len(o) - 2, Len(o)) = ThreeSubs(s)

\* C11: on every connection the session has not stopped, the open event
\* sends CONNECT on that connection, and the first INFO or PING received on
\* it sends the three SUB frames (ids 1, 2, 3) on it.
C11_HandshakeOnEveryConnection ==
  [][\A s \in Sockets :
       /\ (lastStep'.op = "open" /\ lastStep'.sock = s)
            => out' = <<[to |-> s, cmd |-> CONNECT_COMMAND]>>
       /\ (/\ lastStep'.op = "message" /\ lastStep'.sock = s
           /\ \/ StartsWith(Trim(lastStep'.data), "INFO")
              \/ Trim(lastStep'.data) = <<"PING">>
           /\ sock[s].listeners /\ sock[s].subs = 0)
            => EndsWithThreeSubs(out', s)]_vars

\* C12: from a stop() that found the session's socket connecting or open and
\* no reconnect pending, until start() is called, the state is Disconnected
\* and no reconnect is scheduled (by the close of that socket or otherwise).
C12_StopOnLiveSocketStaysDisconnected ==
  stopFound = "connected" => (natsState = "DISCONNECTED" /\ reconnectTimers = 0)

\* This step closed no socket, scheduled no reconnect and left the state.
NoSessionEffect ==
  /\ \A s \in Sockets : sock'[s].rs = sock[s].rs
  /\ reconnectTimers' = reconnectTimers
  /\ natsState' = natsState

\* C13: a stop() that directly follows a stop(), or that is called while the
\* state is Disconnected, closes no socket, schedules no reconnect and leaves
\* the state as it was.
C13_StopIsIdempotent ==
  [][(lastStep'.op = "stop" /\ (lastStep.op = "stop" \/ natsState = "DISCONNECTED"))
       => NoSessionEffect]_vars

\* C14 as claimed: the state leaves Disconnected only in a start() step.
C14_OnlyStartLeavesDisconnected ==
  [][(natsState = "DISCONNECTED" /\ natsState' # "DISCONNECTED")
       => lastStep'.op = "start"]_vars

\* C14 as amended: the state leaves Disconnected only in a start() step, when
\* a reconnect timer fires or when a socket opens; a received frame or a
\* keep-alive tick in Disconnected leaves it Disconnected.
C14_FramesAndTicksKeepDisconnected ==
  [][(natsState = "DISCONNECTED" /\ natsState' # "DISCONNECTED")
       => lastStep'.op \in {"start", "reconnect", "open"}]_vars

\* An INFO frame was received in Disconnected (on the socket stop() is
\* closing) and the state is still Disconnected.
C14_Witness ==
  /\ lastStep.op = "message" /\ lastStep.data = INFO_FRAME
  /\ sock[lastStep.sock].rs = "CLOSING" /\ ~sock[lastStep.sock].listeners
  /\ natsState = "DISCONNECTED"

\* C24: a keep-alive tick sends one PING, on the session's socket, exactly
\* when that socket is open and the state is SUBSCRIBING or OPERATIONAL; in
\* every other state, and on a socket that is not open, it sends nothing.
C24_TickPingsWhenSubscribed ==
  [][lastStep'.op = "tick" =>
       out' = IF /\ ws # 0 /\ sock[ws].rs = "OPEN"
                 /\ natsState \in {"SUBSCRIBING", "OPERATIONAL"}
                THEN <<[to |-> ws, cmd |-> <<"PING">>]>>
                ELSE <<>>]_vars

\* A tick sent PING while the subscriptions were not yet acknowledged.
C24_Witness ==
  /\ lastStep.op = "tick"
  /\ out = <<[to |-> ws, cmd |-> <<"PING">>]>>
  /\ natsState = "SUBSCRIBING"

\* A tick found the session waiting for the server's INFO and sent nothing.
C24_QuietTickReached ==
  /\ lastStep.op = "tick" /\ out = <<>>
  /\ natsState = "CONNECTED_WAITING_FOR_INFO_OR_PING"
  /\ ws # 0 /\ sock[ws].rs = "OPEN"

\* C25: a -ERR frame leaves the state as it is, sends nothing and schedules
\* no reconnect; a reconnect is scheduled only by a socket's close or error.
C25_ErrFrameHasNoEffect ==
  [][((lastStep'.op = "message" /\ StartsWith(Trim(lastStep'.data), "-ERR"))
        => (/\ natsState' = natsState
            /\ out' = <<>>
            /\ reconnectTimers' = reconnectTimers
            /\ ws' = ws
            /\ \A s \in Sockets : sock'[s].rs = sock[s].rs))
     /\ ((reconnectTimers' > reconnectTimers)
           => lastStep'.op \in {"close", "error"})]_vars

\* The server rejected the handshake: the session still waits for INFO.
C25_Witness ==
  /\ lastStep.op = "message" /\ lastStep.data = ERR_FRAME
  /\ natsState = "CONNECTED_WAITING_FOR_INFO_OR_PING"
  /\ reconnectTimers = 0
  /\ ws # 0 /\ sock[ws].rs = "OPEN"

\* C30: whenever the session is DISCONNECTED, no keep-alive timer is running.
C30_NoTimerWhileDisconnected ==
  natsState = "DISCONNECTED" => ~clientKeepAliveIntervalId

\* C30 as the code has it: the timer is cleared by the close handler and by
\* stop(), not by the error handler.  While the session is DISCONNECTED the
\* timer runs only between a socket's 'error' and that socket's 'close'.
C30_TimerStopsAtClose ==
  (natsState = "DISCONNECTED" /\ clientKeepAliveIntervalId)
    => \E s \in Sockets : sock[s].rs = "CLOSING" /\ sock[s].listeners

\* An error has been reported, its close has not: DISCONNECTED, timer running.
C30_Witness ==
  /\ lastStep.op = "error"
  /\ natsState = "DISCONNECTED"
  /\ clientKeepAliveIntervalId
  /\ sock[lastStep.sock].rs = "CLOSING"

\* The close that follows the error has run its handler: the timer is cleared.
C30_ClosedReached ==
  /\ lastStep.op = "close"
  /\ sock[lastStep.sock].scheduled > 0
  /\ natsState = "DISCONNECTED"
  /\ ~clientKeepAliveIntervalId

\* C31: the sockets that are connecting or open and the pending reconnect
\* timers number at most one, whatever the interleaving.
C31_OneConnectionAtATime ==
  Cardinality({s \in Sockets : sock[s].rs \in {"CONNECTING", "OPEN"}})
    + reconnectTimers <= 1

\* C34: on every connection, SUB is written only to a socket to which
\* CONNECT was written; the state becomes SUBSCRIBING only from
\* CONNECTED_WAITING_FOR_INFO_OR_PING, and OPERATIONAL only from SUBSCRIBING
\* when a +OK frame is handled.
C34_ProtocolStepsOrdered ==
  [][/\ \A i \in 1..Len(out') :
          out'[i].cmd[1] = "SUB" => sock[out'[i].to].hello
     /\ (natsState' = "SUBSCRIBING" /\ natsState # "SUBSCRIBING")
          => natsState = "CONNECTED_WAITING_FOR_INFO_OR_PING"
     /\ (natsState' = "OPERATIONAL" /\ natsState # "OPERATIONAL")
          => (/\ natsState = "SUBSCRIBING"
              /\ lastStep'.op = "message"
              /\ Trim(lastStep'.data) = <<"+OK">>)]_vars

\* A connection has gone through CONNECT, SUB and +OK.
C34_Witness ==
  /\ traced
  /\ natsState = "OPERATIONAL"
  /\ lastStep.op = "message" /\ Trim(lastStep.data) = <<"+OK">>
  /\ sock[lastStep.sock].hello
  /\ sock[lastStep.sock].subs > 0

\* C35: no connection is sent the SUB frames more than once, whatever INFO
\* and PING frames follow the first.
C35_SubscribedOncePerConnection ==
  \A s \in Sockets : sock[s].subs <= 1

(***************************************************************************)
(* Properties of executeRpcCall.                                           *)
(***************************************************************************)
Failed(p) == call[p].pc = "done" /\ call[p].result.kind = "error"
Succeeded(p) == call[p].pc = "done" /\ call[p].result.kind = "ok"

\* The invocation of p ended in failure with every attempt of every endpoint
\* used and no failure other than retriable ones.
Exhausted(p) ==
  /\ Failed(p)
  /\ call[p].totalAttemptsAcrossRpcs = rpcEndpoints * rpcRetryAttempts
  /\ \/ rpcRetryAttempts = 0
     \/ call[p].lastOutcome.kind = "error" /\ isRpcFailoverError(call[p].lastOutcome.err)

\* C3: an invocation that fails with every failure retriable (it ends with a
\* retriable error or, with no attempt allowed, with the exhausted error) has
\* called the action exactly rpcEndpoints * rpcRetryAttempts times.
C3_AllRetriableMakesNTimesRAttempts ==
  \A p \in Callers :
    (Failed(p) /\ (isRpcFailoverError(call[p].result.err)
                   \/ call[p].result.err = ExhaustedError))
      => call[p].totalAttemptsAcrossRpcs = rpcEndpoints * rpcRetryAttempts

\* An invocation failed after 2 endpoints x 2 attempts, the last of them a
\* failed fetch.
C3_Witness ==
  \E p \in Callers :
    /\ Failed(p) /\ isRpcFailoverError(call[p].result.err)
    /\ call[p].result.err = ErrFetch
    /\ rpcEndpoints = 2 /\ rpcRetryAttempts = 2
    /\ call[p].totalAttemptsAcrossRpcs = 4
    /\ ~call[p].overlapped

\* C4 as claimed: an invocation whose endpoints and attempts are all used up
\* by retriable failures fails with the exhausted-failover error.
C4_ExhaustedFailsWithDedicatedError ==
  \A p \in Callers : Exhausted(p) => call[p].result.err = ExhaustedError

\* C4 as amended: such an invocation fails with the error of its last
\* attempt; the exhausted-failover error of line 104 is thrown only when
\* rpcRetryAttempts is 0 and no attempt was made.
C4_ExhaustedFailsWithLastError ==
  \A p \in Callers :
    Exhausted(p) =>
      IF rpcRetryAttempts = 0
        THEN call[p].result.err = ExhaustedError
        ELSE /\ call[p].result.err = call[p].lastOutcome.err
             /\ call[p].lastOutcome.at = call[p].totalAttemptsAcrossRpcs
             /\ call[p].result.err # ExhaustedError

\* Two endpoints x two attempts used up; the caller got the last error.
C4_Witness ==
  \E p \in Callers :
    /\ Exhausted(p)
    /\ rpcEndpoints = 2 /\ rpcRetryAttempts = 2
    /\ call[p].totalAttemptsAcrossRpcs = 4
    /\ call[p].result.err = ErrReset

\* C5: as soon as the action has failed with a non-retriable error the
\* invocation is over: that error is its result, no attempt follows it and
\* the invocation rotates the pool no further; on the first attempt this is
\* 1 attempt and 0 rotations.
C5_NonRetriableStopsAtOnce ==
  \A p \in Callers :
    (call[p].lastOutcome.kind = "error" /\ ~isRpcFailoverError(call[p].lastOutcome.err))
      => /\ call[p].pc = "done"
         /\ call[p].result = [kind |-> "error", err |-> call[p].lastOutcome.err]
         /\ call[p].totalAttemptsAcrossRpcs = call[p].lastOutcome.at
         /\ call[p].rotations = call[p].lastOutcome.rot
         /\ (call[p].lastOutcome.at = 1 => call[p].rotations = 0)

\* A non-retriable error on the second attempt of the second endpoint.
C5_Witness ==
  \E p \in Callers :
    /\ call[p].lastOutcome.kind = "error"
    /\ call[p].lastOutcome.err = ErrInvalidParams
    /\ call[p].cycle = 1 /\ call[p].attempt = 1
    /\ call[p].pc = "done"

\* C6: an invocation that succeeds on the first attempt of its (k+1)-th
\* endpoint (cycle = k) has made k * rpcRetryAttempts + 1 attempts; when no
\* other invocation ran since it began, the endpoint it succeeded on is the
\* k-th successor of the endpoint it started on and is the pool's current
\* endpoint.
C6_FailoverSuccess ==
  \A p \in Callers :
    (Succeeded(p) /\ call[p].attempt = 0)
      => /\ call[p].totalAttemptsAcrossRpcs = call[p].cycle * rpcRetryAttempts + 1
         /\ ~call[p].overlapped =>
              /\ call[p].conn = (call[p].startIndex + call[p].cycle) % rpcEndpoints
              /\ currentRpcIndex = call[p].conn
              /\ currentConnection = call[p].conn

\* Pool [A, B], 2 attempts: A failed twice, B succeeded at once: 3 attempts.
C6_Witness ==
  \E p \in Callers :
    /\ Succeeded(p) /\ call[p].attempt = 0 /\ ~call[p].overlapped
    /\ rpcEndpoints = 2 /\ rpcRetryAttempts = 2
    /\ call[p].startIndex = 0 /\ call[p].cycle = 1
    /\ call[p].totalAttemptsAcrossRpcs = 3
    /\ currentRpcIndex = 1

\* C7: when an attempt succeeds the invocation returns that result in the
\* same step, leaving the pool as it is; afterwards the invocation has made
\* no further attempt and no further rotation.
C7_SuccessReturnsAtOnce ==
  /\ [](\A p \in Callers :
          call[p].lastOutcome.kind = "ok"
            => /\ Succeeded(p)
               /\ call[p].totalAttemptsAcrossRpcs = call[p].lastOutcome.at
               /\ call[p].rotations = call[p].lastOutcome.rot)
  /\ [][\A p \in Callers :
          (call[p].pc = "awaitAction" /\ call'[p].lastOutcome.kind = "ok")
            => /\ currentRpcIndex' = currentRpcIndex
               /\ currentConnection' = currentConnection]_vars

\* Success on the second attempt of the first of two endpoints.
C7_Witness ==
  \E p \in Callers :
    /\ Succeeded(p)
    /\ call[p].lastOutcome.kind = "ok" /\ call[p].lastOutcome.at = 2
    /\ call[p].cycle = 0
    /\ rpcEndpoints = 2

\* The endpoints of the pool
Endpoints == 0..(rpcEndpoints - 1)

\* The invocation of q has used up its attempts on endpoint e and left it:
\* e is the endpoint of its previous cycle.
LeftEndpoint(q, e) ==
  /\ Active(q)
  /\ Len(call[q].tried) >= 2
  /\ call[q].tried[Len(call[q].tried) - 1] = e

\* C19: when the invocation of p uses up its attempts on endpoint e, which a
\* concurrent invocation has used up too, advancing the pool to e's
\* successor, the pool stays on e's successor.
C19_SharedPoolAdvancedOnce ==
  [][\A p \in Callers : \A q \in Callers \ {p} : \A e \in Endpoints :
       (/\ LeftEndpoint(q, e)
        /\ currentRpcIndex = switchToNextRpc(e)
        /\ call[p].pc = "awaitAction" /\ call[p].conn = e
        /\ call'[p].rotations = call[p].rotations + 1)
         => currentRpcIndex' = switchToNextRpc(e)]_vars

\* C20: an invocation that failed with a retriable error has called the
\* action on every endpoint of the pool, each in one cycle.
C20_FailsOnlyAfterEveryEndpoint ==
  \A p \in Callers :
    (Failed(p) /\ isRpcFailoverError(call[p].result.err))
      => /\ {call[p].tried[i] : i \in 1..Len(call[p].tried)} = Endpoints
         /\ Len(call[p].tried) = rpcEndpoints

\* C21: an invocation calls the action at most rpcEndpoints *
\* rpcRetryAttempts times and rotates the pool at most rpcEndpoints - 1
\* times, whatever the outcomes of the action; once the outcome of call
\* number rpcEndpoints * rpcRetryAttempts is known it is over, and every
\* invocation in flight comes to an end.
C21_InvocationIsBounded ==
  /\ [](\A p \in Callers :
          /\ call[p].totalAttemptsAcrossRpcs <= rpcEndpoints * rpcRetryAttempts
          /\ call[p].rotations <= rpcEndpoints - 1
          /\ (call[p].pc # "idle"
               /\ call[p].lastOutcome.at = rpcEndpoints * rpcRetryAttempts)
                => call[p].pc = "done")
  /\ (Active(1) ~> call[1].pc = "done")

\* Both bounds met, after retriable failures and a last, non-retriable one.
C21_Witness ==
  \E p \in Callers :
    /\ Failed(p) /\ call[p].result.err = ErrInvalidParams
    /\ rpcEndpoints = 2 /\ rpcRetryAttempts = 2
    /\ call[p].totalAttemptsAcrossRpcs = 4
    /\ call[p].rotations = 1

\* C22: the pool index is always one of 0 .. rpcEndpoints - 1 and
\* getSolanaConnection returns a connection to the endpoint at that index;
\* when an invocation leaves an endpoint, switchToNextRpc moves the index
\* from i to (i + 1) mod rpcEndpoints and the connection it returns, which
\* the invocation uses next, is to that endpoint.
C22_AdvanceIsNextModuloN ==
  /\ [](/\ currentRpcIndex \in Endpoints
        /\ getSolanaConnection(currentRpcIndex, currentConnection) = currentRpcIndex)
  /\ [][\A p \in Callers :
          (call[p].pc = "awaitAction" /\ call'[p].rotations = call[p].rotations + 1)
            => /\ currentRpcIndex' = (currentRpcIndex + 1) % rpcEndpoints
               /\ currentConnection' = currentRpcIndex'
               /\ call'[p].conn = currentRpcIndex']_vars

\* The index wrapped from the last endpoint of two back to the first.
C22_Witness ==
  \E p \in Callers :
    /\ rpcEndpoints = 2
    /\ call[p].startIndex = 1 /\ call[p].rotations = 1
    /\ currentRpcIndex = 0 /\ currentConnection = 0
    /\ call[p].conn = 0

\* The step is one in which the invocation of p calls switchToNextRpc
\* (line 96): its count of rotations grows, from 0 when the step begins it.
FailsOver(p) ==
  call'[p].rotations >
    (IF call[p].pc \in {"idle", "done"} THEN 0 ELSE call[p].rotations)

\* C36 as claimed: currentRpcIndex changes only in a step in which an
\* invocation fails over; an invocation that has succeeded on its first
\* endpoint, or that has ended with an error that is not retriable, has left
\* currentRpcIndex and currentConnection as it found them.
C36_PoolWrittenOnlyByFailover ==
  /\ [][currentRpcIndex' # currentRpcIndex
          => \E p \in Callers : FailsOver(p)]_vars
  /\ [](\A p \in Callers :
          (/\ ~call[p].overlapped
           /\ \/ Succeeded(p) /\ call[p].cycle = 0
              \/ Failed(p) /\ ~isRpcFailoverError(call[p].result.err)
                           /\ call[p].result.err # ExhaustedError)
            => (/\ currentRpcIndex = call[p].startIndex
                /\ currentConnection = call[p].startConnection))

\* C36 as amended: currentRpcIndex changes only in a failover step; an
\* invocation that has ended without failing over (success or error on its
\* first endpoint) has left currentRpcIndex as it found it, and
\* currentConnection too, or created for that index if there was none.
C36_PoolKeptWithoutFailover ==
  /\ [][currentRpcIndex' # currentRpcIndex
          => \E p \in Callers : FailsOver(p)]_vars
  /\ [](\A p \in Callers :
          (call[p].pc = "done" /\ ~call[p].overlapped /\ call[p].rotations = 0)
            => (/\ currentRpcIndex = call[p].startIndex
                /\ currentConnection =
                     getSolanaConnection(call[p].startIndex, call[p].startConnection)))

\* An invocation ended with an error that is not retriable on the first
\* endpoint of a pool of two, the connection having existed before.
C36_Witness ==
  \E p \in Callers :
    /\ Failed(p) /\ ~isRpcFailoverError(call[p].result.err)
    /\ call[p].result.err # ExhaustedError
    /\ call[p].rotations = 0
    /\ rpcEndpoints = 2
    /\ call[p].startConnection # NoConnection

\* C38: invocations that follow one another share the pool pointer and
\* nothing else.  An invocation makes its first call on the endpoint at the
\* current index, as the invocation before it left it, with its counters at
\* their start; an invocation that fails with every failure retriable has
\* called the action rpcEndpoints * rpcRetryAttempts times, once it is the
\* turn of each endpoint in the order of the pool from the start index, and
\* leaves the index at (start + rpcEndpoints - 1) mod rpcEndpoints.
C38_PointerPersistsBudgetIsFresh ==
  /\ [][\A p \in Callers :
          (call[p].pc \in {"idle", "done"} /\ call'[p].pc = "awaitAction")
            => (/\ call'[p].conn = currentRpcIndex
                /\ call'[p].tried = <<currentRpcIndex>>
                /\ call'[p].totalAttemptsAcrossRpcs = 1
                /\ call'[p].attempt = 0
                /\ call'[p].cycle = 0
                /\ call'[p].rotations = 0
                /\ currentRpcIndex' = currentRpcIndex)]_vars
  /\ [](\A p \in Callers :
          (Failed(p) /\ (isRpcFailoverError(call[p].result.err)
                         \/ call[p].result.err = ExhaustedError))
            => (/\ call[p].totalAttemptsAcrossRpcs = rpcEndpoints * rpcRetryAttempts
                /\ call[p].rotations = rpcEndpoints - 1
                /\ currentRpcIndex =
                     (call[p].startIndex + rpcEndpoints - 1) % rpcEndpoints
                /\ rpcRetryAttempts >= 1
                     => (/\ Len(call[p].tried) = rpcEndpoints
                         /\ \A i \in 1..rpcEndpoints :
                              call[p].tried[i] =
                                (call[p].startIndex + i - 1) % rpcEndpoints
                         /\ \A e \in Endpoints :
                              Cardinality({i \in 1..Len(call[p].tried) :
                                             call[p].tried[i] = e}) = 1)))

\* An invocation that found the index at 1, left there by the one before it,
\* failed after 2 endpoints x 2 attempts, all retriable, and left it at 0.
C38_Witness ==
  \E p \in Callers :
    /\ Failed(p) /\ isRpcFailoverError(call[p].result.err)
    /\ rpcEndpoints = 2 /\ rpcRetryAttempts = 2
    /\ call[p].startIndex = 1
    /\ call[p].tried = <<1, 0>>
    /\ call[p].totalAttemptsAcrossRpcs = 4
    /\ currentRpcIndex = 0

(***************************************************************************)
\* C27: whatever error ends executeRpcCall (the error rethrown at line 90 or
\* the exhaustion error of line 104), each wrapper returns: null, and
\* getTokenAccountsByOwner the empty list.
C27_WrappersReturnFallback ==
  \A p \in Callers : \A w \in Wrappers :
    (call[p].pc = "done" /\ call[p].result.kind = "error")
      => WrapperReturns(w, call[p].result) =
           [kind |-> "return",
            value |-> IF w = "getTokenAccountsByOwner" THEN "emptyList" ELSE "null"]

\* An invocation has ended with the error rethrown on the last endpoint.
C27_Witness ==
  /\ call[1].pc = "done"
  /\ call[1].result.kind = "error"
  /\ call[1].result.err # ExhaustedError
  /\ call[1].rotations > 0

\* An invocation has ended with the exhaustion error of line 104.
C27_ExhaustedReached ==
  /\ call[1].pc = "done"
  /\ call[1].result.kind = "error"
  /\ call[1].result.err = ExhaustedError

(* Properties of handleNatsMsg.                                            *)
(***************************************************************************)
\* The value of a byte count written by DigitText
DigitValue(d) == CHOOSE n \in 0..9 : DigitText(n) = d

\* The payload the header of a data frame declares: the N bytes behind the
\* header line, N being the last field of the header line.
DeclaredPayload(data) ==
  LET eol == IndexOfCRLF(data)
      header == Split(SubSeq(data, 1, eol - 1))
      n == DigitValue(header[Len(header)][1])
  IN  SubSeq(data, eol + 2, eol + 1 + n)

\* The state InitParse starts from is one the session reaches.
InitParseReached ==
  /\ natsState = "OPERATIONAL" /\ ws = 1 /\ clientKeepAliveIntervalId
  /\ reconnectTimers = 0 /\ sock[1].rs = "OPEN" /\ sock[2] = NoSocket
  /\ lastStep = [op |-> "message", sock |-> 1, data |-> OK_FRAME]
  /\ out = <<>> /\ parsed = NoParse /\ ~stopRequested /\ failures = 0

\* C8: for a message that starts with a data frame, handleNatsMsg takes as
\* payload exactly the bytes the header's byte count declares.
C8_PayloadIsDeclaredBytes ==
  (lastStep.op = "message" /\ StartsWith(Trim(lastStep.data), "MSG"))
    => /\ parsed.status = "ok"
       /\ parsed.payloadStr = DeclaredPayload(lastStep.data)

(***************************************************************************)
(* Properties of decoding and dispatch.                                    *)
(***************************************************************************)
\* The last handler run received the object with members ms, encoded depth
\* times, on the subscription of interest.
Received(ms, depth) ==
  /\ lastStep.op = "message"
  /\ lastStep.data = DataFrame("advancedCoinGraduated", SID_ADVANCED_COIN_GRADUATED,
                               Encoded(ObjectText(ms), depth))

\* C15: a payload whose first decode yields an object is decoded once and
\* that object is the event object; a payload whose first decode yields a
\* string is decoded exactly once more and the second result is the event
\* object, also when that result is a string again.
C15_OneMoreDecodePass ==
  \A ms \in SampleObjects :
    /\ Received(ms, 1) => (parsed.passes = 1 /\ parsed.tokenData = ObjectOf(ms))
    /\ Received(ms, 2) => (parsed.passes = 2 /\ parsed.tokenData = ObjectOf(ms))
    /\ \A depth \in 3..MaxDepth :
         Received(ms, depth)
           => /\ parsed.passes = 2
              /\ parsed.tokenData = JsString(Encoded(ObjectText(ms), depth - 2))

\* A doubly encoded {"mint":"X","address":"Y"} was decoded in two passes and
\* handed to a consumer.
C15_Witness ==
  /\ Received(<<Member("mint", JsString(<<"X">>)), Member("address", JsString(<<"Y">>))>>, 2)
  /\ parsed.passes = 2
  /\ parsed.calls = <<1>>

AliasFields == <<"coinMint", "mint", "token_address", "address">>

\* The positions in AliasFields of the fields the object o has.
PresentAliases(o) == {i \in 1..Len(AliasFields) : AliasFields[i] \in DOMAIN o.f}

\* A value that is no identifier: null, 0 or the empty string.
EmptyValue(v) == v \in {JsNull, JsNumber(0), JsString(<<>>)}

\* The positions of the fields the object o has with a value that is not
\* empty.
FilledAliases(o) == {i \in PresentAliases(o) : ~EmptyValue(o.f[AliasFields[i]])}

Least(S) == CHOOSE i \in S : \A j \in S : i <= j

\* C16 as claimed: the identifier the consumers are called with is the value
\* of the first alias field present in the decoded object.
C16_FirstPresentAlias ==
  \A ms \in SampleObjects : \A depth \in 1..2 :
    (Received(ms, depth) /\ parsed.calls # <<>>)
      => /\ PresentAliases(ObjectOf(ms)) # {}
         /\ parsed.tokenAddress =
              ObjectOf(ms).f[AliasFields[Least(PresentAliases(ObjectOf(ms)))]]

\* C16 as amended: the identifier is the value of the first alias field that
\* is present with a value other than null, 0 or the empty string.
C16_FirstFilledAlias ==
  \A ms \in SampleObjects : \A depth \in 1..2 :
    (Received(ms, depth) /\ FilledAliases(ObjectOf(ms)) # {})
      => parsed.tokenAddress =
           ObjectOf(ms).f[AliasFields[Least(FilledAliases(ObjectOf(ms)))]]

\* {"mint":"X","address":"Y"} reached a consumer with the identifier X.
C16_Witness ==
  /\ Received(<<Member("mint", JsString(<<"X">>)), Member("address", JsString(<<"Y">>))>>, 1)
  /\ parsed.tokenAddress = JsString(<<"X">>)
  /\ parsed.calls # <<>>

\* A missing identifier: undefined, null or the empty string.
MissingIdentifier(v) == v.t \in {"undefined", "null"} \/ v = JsString(<<>>)

\* C17: a frame for which a consumer was called carried an identifier; a
\* frame whose object has no alias field with an identifier, or whose payload
\* is no object, calls no consumer.
C17_NoCallWithoutIdentifier ==
  /\ (lastStep.op = "message" /\ parsed.calls # <<>>)
       => ~MissingIdentifier(parsed.tokenAddress)
  /\ \A ms \in SampleObjects : \A depth \in 1..2 :
       (/\ Received(ms, depth)
        /\ \A i \in PresentAliases(ObjectOf(ms)) :
             MissingIdentifier(ObjectOf(ms).f[AliasFields[i]]))
         => parsed.calls = <<>>
  /\ \A payload \in OtherPayloads :
       (/\ lastStep.op = "message"
        /\ lastStep.data = DataFrame("advancedCoinGraduated", SID_ADVANCED_COIN_GRADUATED,
                                     payload))
         => parsed.calls = <<>>

\* {"name":"N"} was received with two consumers registered: none was called.
C17_Witness ==
  /\ Received(<<Member("name", JsString(<<"N">>))>>, 1)
  /\ Len(newTokenCallbacks) = 2
  /\ parsed.outcome = "noAddress"
  /\ parsed.calls = <<>>

\* C18: for a frame that is dispatched every registered consumer is called
\* once, in registration order; in the history of calls the calls of one
\* frame are in registration order and come before those of a later frame.
C18_EveryConsumerOnceInOrder ==
  /\ (lastStep.op = "message" /\ parsed.outcome \in {"dispatched", "consumerThrew"})
       => parsed.calls = [i \in 1..Len(newTokenCallbacks) |-> i]
  /\ \A i \in 1..Len(invoked) : \A j \in (i + 1)..Len(invoked) :
       \/ invoked[i].frame < invoked[j].frame
       \/ invoked[i].frame = invoked[j].frame /\ invoked[i].consumer < invoked[j].consumer

\* C26: a data frame with too few header fields, without the CR LF between
\* header and payload, or with a byte count that is not the length of its
\* payload calls no consumer and leaves the session as it was.
C26_MalformedFrameIsDropped ==
  [][(lastStep'.op = "message" /\ lastStep'.data \in MalformedFrames)
       => /\ parsed'.calls = <<>>
          /\ invoked' = invoked
          /\ natsState' = natsState
          /\ sock' = sock]_vars

\* The same for the first two kinds, which lines 172-185 reject.
C26_HeaderChecksDrop ==
  [][(lastStep'.op = "message" /\ lastStep'.data \in {TooFewFieldsFrame, NoSeparatorFrame})
       => /\ parsed'.status \in {"malformed", "noSeparator"}
          /\ parsed'.calls = <<>>
          /\ invoked' = invoked
          /\ natsState' = natsState
          /\ sock' = sock]_vars

\* C29: a data frame handled while the session is DISCONNECTED (stop() has
\* returned, or the socket has failed) calls no consumer.
C29_NoDispatchWhileDisconnected ==
  [][(/\ lastStep'.op = "message"
      /\ StartsWith(Trim(lastStep'.data), "MSG")
      /\ natsState = "DISCONNECTED")
       => (parsed'.calls = <<>> /\ invoked' = invoked)]_vars

\* The same for the states other than DISCONNECTED: the frame is dispatched.
C29_DispatchWhileConnected ==
  [][(/\ lastStep'.op = "message"
      /\ lastStep'.data = MintFrame
      /\ natsState # "DISCONNECTED"
      /\ newTokenCallbacks # <<>>)
       => parsed'.calls # <<>>]_vars

\* Payloads on which the first JSON.parse throws, and payloads that are a
\* JSON string on whose content the second JSON.parse throws.
FirstPassFailures == {<<"x">>, <<"{", Q0, "mint", Q0, ":">>}

SecondPassFailures == {JsonStringify(<<"X">>)}

UndecodableFrames ==
  {DataFrame("advancedCoinGraduated", SID_ADVANCED_COIN_GRADUATED, payload) :
     payload \in FirstPassFailures \cup SecondPassFailures}

\* C32: no data frame changes the session state; a frame whose payload fails
\* to decode, on the first or on the second pass, ends in the catch block
\* with no consumer called.
C32_DecodeFailureDropsFrame ==
  [][(lastStep'.op = "message" /\ StartsWith(Trim(lastStep'.data), "MSG"))
       => (/\ natsState' = natsState
           /\ ws' = ws
           /\ (lastStep'.data \in UndecodableFrames
                 => (/\ parsed'.outcome = "decodeError"
                     /\ parsed'.calls = <<>>
                     /\ invoked' = invoked)))]_vars

\* A frame whose second pass fails was handled with a consumer registered.
C32_Witness ==
  /\ lastStep.op = "message"
  /\ lastStep.data \in UndecodableFrames
  /\ PayloadOf(Trim(lastStep.data)) \in SecondPassFailures
  /\ parsed.passes = 2
  /\ newTokenCallbacks # <<>>
  /\ natsState = "OPERATIONAL"

\* The same for a frame whose first pass fails.
C32_FirstPassReached ==
  /\ lastStep.op = "message"
  /\ lastStep.data \in UndecodableFrames
  /\ parsed.passes = 1
  /\ newTokenCallbacks # <<>>

\* C33: a data frame calls consumers only if its subscription id is 2 and
\* its subject advancedCoinGraduated; the frames of the other two
\* subscriptions, and a frame with id 2 and another subject, call none.
C33_OnlyTheSubscriptionOfInterest ==
  [][(lastStep'.op = "message" /\ StartsWith(Trim(lastStep'.data), "MSG"))
       => (/\ (parsed'.calls # <<>>
                 => (/\ parsed'.sid = <<SID_ADVANCED_COIN_GRADUATED>>
                     /\ parsed'.subject = <<"advancedCoinGraduated">>))
           /\ (lastStep'.data \in OtherSubscriptionFrames
                 => (parsed'.calls = <<>> /\ invoked' = invoked)))]_vars

\* A frame with id 2 and another subject was handled, a consumer registered.
C33_Witness ==
  /\ lastStep.op = "message"
  /\ lastStep.data \in OtherSubscriptionFrames
  /\ parsed.sid = <<SID_ADVANCED_COIN_GRADUATED>>
  /\ parsed.subject # <<"advancedCoinGraduated">>
  /\ parsed.outcome = "ignored"
  /\ newTokenCallbacks # <<>>

\* C37: when a consumer throws while a frame is dispatched, the consumers
\* registered after it are still called for that frame, and the session
\* state is as before.
C37_ThrowingConsumerIsIsolated ==
  [][(/\ lastStep'.op = "message"
      /\ parsed'.outcome = "consumerThrew")
       => (/\ \A i \in 1..Len(newTokenCallbacks) :
                \E j \in 1..Len(parsed'.calls) : parsed'.calls[j] = i
           /\ natsState' = natsState)]_vars

(***************************************************************************)
(* Properties of trading.                                                  *)
(***************************************************************************)
\* C23: the positions bought and monitored never number more than
\* maxOpenTrades.
C23_OpenTradesWithinLimit ==
  getActivePositionCount(monitoredPositions) <= maxOpenTrades

\* C28: once every addPosition and removePosition call has returned, what
\* loadPositionsFromRedis restores on a fresh RiskManager is the map of the
\* positions monitored in memory, field by field.
C28_RedisRestoresMemory ==
  pending = <<>> => loadPositionsFromRedis(NoEntries, redis) = monitoredPositions

\* C39: sellToken is not started for a position while a sell of it is in
\* progress, nor after a sell of it has returned a txid.
C39_SoldAtMostOnce ==
  [][\A c \in Checks :
       (check[c].pc = "quoting" /\ check'[c].pc = "selling")
         => LET tokenMintAddress == check[c].position[1].tokenMintAddress IN
              /\ tokenMintAddress \notin sold
              /\ \A d \in Checks \ {c} :
                   ~(/\ check[d].pc = "selling"
                     /\ check[d].position[1].tokenMintAddress = tokenMintAddress)]_vars

====
